---- MODULE Spec2Model ----
(***************************************************************************)
(* A model of Shannon's LLM pipeline: the text chunker                     *)
(* (src/llm/processors/chunker.py), the LLM client and its response cache  *)
(* (src/llm/client.py, src/llm/cache/response_cache.py), the event bus     *)
(* (src/core/events.py) and the extraction service                         *)
(* (src/services/extraction_service.py).                                   *)
(*                                                                         *)
(* Python values are modelled as follows.  A str is a sequence of          *)
(* one-character strings.  An Optional[int] argument is a set: {} is None  *)
(* and {v} is the value v.  A float temperature or progress fraction is an *)
(* integer number of tenths resp. thousandths.                             *)
(***************************************************************************)
EXTENDS Integers, Sequences, FiniteSets, TLC

\* ------------------------------------------------------------------ bounds

\* The chunking loop is cut off after this many iterations.
MaxChunks == 14

\* ------------------------------------------------------ python primitives

SetMax(S) == CHOOSE m \in S : \A x \in S : x <= m

\* n copies of the character c
Rep(c, n) == [i \in 1..n |-> c]

\* n copies of the string s, one after the other
RECURSIVE RepStr(_, _)
RepStr(s, n) == IF n <= 0 THEN <<>> ELSE s \o RepStr(s, n - 1)

\* `a or b` on an Optional[int] a: None and 0 are both falsy
PyOr(a, b) == IF a = {} \/ a = {0} THEN b ELSE CHOOSE v \in a : TRUE

\* a slice bound i clamped as Python clamps it for a sequence of length n
PyIndex(i, n) ==
    IF i < 0 THEN (IF i + n < 0 THEN 0 ELSE i + n)
    ELSE IF i > n THEN n ELSE i

\* s[i:j]
PySlice(s, i, j) ==
    LET a == PyIndex(i, Len(s))
        b == PyIndex(j, Len(s))
    IN  IF a >= b THEN <<>> ELSE SubSeq(s, a + 1, b)

\* s.rfind(sub, start, end): the highest 0-based index in the clamped window
\* at which sub occurs wholly inside the window, or -1
PyRFind(s, sub, start, end) ==
    LET a == PyIndex(start, Len(s))
        b == PyIndex(end, Len(s))
        hits == {p \in a..(b - Len(sub)) : \A k \in 1..Len(sub) : s[p + k] = sub[k]}
    IN  IF hits = {} THEN -1 ELSE SetMax(hits)

\* int(x / y) for y > 0: truncation towards zero
PyIntDiv(x, y) == IF x >= 0 THEN x \div y ELSE -((-x) \div y)

\* ------------------------------------------------------------------- state

\* TextChunker (src/llm/processors/chunker.py)
VARIABLES
    ck_config,      \* TextChunker._config
    ck_pc,          \* where chunk() is: "idle", "loop", "done"
    ck_text,        \* chunk(): text
    ck_max_tokens,  \* chunk(): max_tokens after defaulting
    ck_overlap,     \* chunk(): overlap after defaulting
    current_pos,    \* chunk(): current_pos
    chunk_index,    \* chunk(): chunk_index
    chunks,         \* chunk(): chunks
    ck_result       \* the list chunk() returned (<<>> until it returns)

\* LLMClient and ResponseCache (src/llm/client.py, src/llm/cache/response_cache.py)
VARIABLES
    cl_config,      \* LLMClient._config: max_retries, temperature, model
    cl_has_cache,   \* LLMClient._cache is not None
    cache_default_ttl, \* ResponseCache._default_ttl
    llm_cache,      \* the rows of table llm_cache, by cache_key
    now,            \* time.time(), in seconds
    cl_pc,          \* where complete() is
    cl_call,        \* complete(): messages, temperature, cache_key, response
    attempt,        \* complete(): attempt
    last_error,     \* complete(): last_error
    posts,          \* every POST /chat/completions issued so far, in order
    sleeps,         \* the asyncio.sleep() delays of the call in progress
    calls,          \* the finished complete() calls, in order, with outcomes
    cache_log,      \* the ResponseCache calls made so far, in order, with outcomes
    streams         \* the finished stream() calls, in order, with outcomes

\* EventBus (src/core/events.py)
VARIABLES
    subscribers,    \* EventBus._subscribers: key -> list of handlers
    pb_pc,          \* where publish() is: "idle", "typed", "wildcard"
    pb_event,       \* publish(): event_type
    pb_iter,        \* publish(): the index of the running for loop's iterator
    pb_at_call,     \* _subscribers as it was when publish() was called
    invoked,        \* the handlers invoked by the publish in progress or last
    pb_propagated   \* an exception left the last publish()

\* ExtractionService (src/services/extraction_service.py)
VARIABLES
    ex_pc,          \* where extract_paper() is
    ex_input,       \* extract_paper(): input_data
    ex_text,        \* extract_paper(): parsed.text
    published,      \* the events extract_paper published, in order
    ex_raised,      \* the exceptions raised inside extract_paper's try block
    ex_return,      \* what extract_paper returned: {} until it returns
    ex_calls        \* the collaborators extract_paper has called, in order

\* BaseExtractor (src/llm/extractors/base.py)
VARIABLES
    xt_pc,          \* where extract() is: "idle", "awaiting"
    xt_call,        \* extract(): template, content, context, messages
    xt_llm_calls,   \* the complete() calls made by the extract() in progress
    xt_done         \* the finished extract() calls, in order, with results

\* GitManager (src/git/manager.py) and the repository it drives
VARIABLES
    git_heads,      \* repo.heads: branch name -> its commits, oldest first
    git_HEAD,       \* the branch checked out, "detached" while rebasing
    git_dirty,      \* the tracked files with uncommitted changes
    git_rebasing,   \* the branch whose rebase is in progress: {} if none
    gm_pc,          \* where rebase_onto_main() is
    gm_call,        \* rebase_onto_main(): branch_name, the git commands it
                    \* ran, the error its except clause caught, the
                    \* repository it started from
    gm_done         \* the finished rebase_onto_main() calls, in order

\* the shared database connection (src/database/connection.py)
VARIABLES
    _connection,    \* the module's connection: {} before init_database()
    db_rows,        \* the rows the database file holds (committed)
    db_pending,     \* the rows written on the connection, not yet committed
    tx_pc,          \* where the with transaction() block is
    tx_calls,       \* what the open scope has called on the connection
    tx_before,      \* the committed rows when the open scope was entered
    tx_done         \* the finished with transaction() blocks, in order

\* the GitHub auth commands (src/cli/commands.py, src/cli/github_auth.py)
VARIABLES
    keyring,        \* the token in the system keyring: {} if none
    gh_valid,       \* the tokens GitHub accepts
    au_pc,          \* where the running command is
    au_call,        \* the running command: its name, the --token option, the
                    \* token handed to _validate_and_store_token, what it
                    \* has done to GitHub and the keyring so far
    au_done         \* the finished commands, in order

\* the repo put command (src/cli/commands.py) and the GitHub contents API
VARIABLES
    gh_contents,    \* GitHub: <<branch, path>> -> the blob sha there, {} if none
    rp_pc,          \* where repo put is
    rp_call,        \* repo put: its arguments, existing_sha, the requests sent
    rp_done         \* the finished repo put commands, in order

\* the legacy scraper CLI (src/cli.py, src/Meta/python_modules/util.py)
VARIABLES
    lp_downloaded,  \* the folders with a <folder>.pdf in Meta/Downloads/paper
    lp_pc,          \* where the list_papers command is: "idle", "prompt",
                    \* "ended"
    lp_directory,   \* list_papers(): directory
    lp_frames,      \* the papers of each list_papers() call in progress,
                    \* outermost first
    lp_log          \* what the command did, in order: renders, prompts with
                    \* their input, download_paper calls

\* the body of a streaming answer as stream() reads it (src/llm/client.py)
VARIABLES
    sse_lines,      \* response.aiter_lines(): the lines of the answer
    sse_pos,        \* how many of them stream() has read
    sse_pc,         \* "reading", "done" (generator exhausted), "raised"
    sse_yielded,    \* what the generator has yielded, in order
    sse_raised      \* the exception that left the generator: {} if none

\* the Result type (src/core/results.py)
VARIABLES
    rs_r,           \* a Result
    rs_fn,          \* a function of values, for map
    rs_chain,       \* a function from values to Results, for and_then
    rs_results,     \* a list of Results
    rs_out          \* the last call made, with what it returned and the
                    \* arguments it passed to the function (<<>>: none yet)

\* BaseRepository.get_paginated (src/core/base.py)
VARIABLES
    pg_table,       \* the table: how many rows it holds of each kind
    pg_args,        \* the arguments of the call: page, page_size, filters
    pg_result       \* {}: not called yet; else the PaginatedResult returned

\* ExtractionService.create_pages_from_extraction
VARIABLES
    cp_pc,          \* "idle", "looping", "noting", "returned"
    cp_call,        \* the call in progress: its arguments, the suggestion the
                    \* loop is at, created_pages, and the service calls made
    cp_done         \* the Result of each finished call with its service calls

ckVars == <<ck_config, ck_pc, ck_text, ck_max_tokens, ck_overlap,
            current_pos, chunk_index, chunks, ck_result>>
clVars == <<cl_config, cl_has_cache, cache_default_ttl, llm_cache, now, cl_pc, cl_call, attempt,
            last_error, posts, sleeps, calls, cache_log, streams>>
busVars == <<subscribers, pb_pc, pb_event, pb_iter, pb_at_call, invoked,
             pb_propagated>>
exVars == <<ex_pc, ex_input, ex_text, published, ex_raised, ex_return,
            ex_calls>>
coreVars == <<ckVars, clVars, busVars, exVars>>
xtVars == <<xt_pc, xt_call, xt_llm_calls, xt_done>>
gitVars == <<git_heads, git_HEAD, git_dirty, git_rebasing, gm_pc, gm_call,
             gm_done>>
txVars == <<_connection, db_rows, db_pending, tx_pc, tx_calls, tx_before, tx_done>>
auVars == <<keyring, gh_valid, au_pc, au_call, au_done>>
rpVars == <<gh_contents, rp_pc, rp_call, rp_done>>
lpVars == <<lp_downloaded, lp_pc, lp_directory, lp_frames, lp_log>>
sseVars == <<sse_lines, sse_pos, sse_pc, sse_yielded, sse_raised>>
rsVars == <<rs_r, rs_fn, rs_chain, rs_results, rs_out>>
pgVars == <<pg_table, pg_args, pg_result>>
cpVars == <<cp_pc, cp_call, cp_done>>
auxVars == <<xtVars, gitVars, txVars, auVars, rpVars, lpVars, sseVars, rsVars, pgVars, cpVars>>
notXt == <<coreVars, gitVars, txVars, auVars, rpVars, lpVars, sseVars, rsVars, pgVars, cpVars>>
notGit == <<coreVars, xtVars, txVars, auVars, rpVars, lpVars, sseVars, rsVars, pgVars, cpVars>>
notTx == <<coreVars, xtVars, gitVars, auVars, rpVars, lpVars, sseVars, rsVars, pgVars, cpVars>>
notAu == <<coreVars, xtVars, gitVars, txVars, rpVars, lpVars, sseVars, rsVars, pgVars, cpVars>>
notRp == <<coreVars, xtVars, gitVars, txVars, auVars, lpVars, sseVars, rsVars, pgVars, cpVars>>
notLp == <<coreVars, xtVars, gitVars, txVars, auVars, rpVars, sseVars, rsVars, pgVars, cpVars>>
notSse == <<coreVars, xtVars, gitVars, txVars, auVars, rpVars, lpVars, rsVars, pgVars, cpVars>>
notRs == <<coreVars, xtVars, gitVars, txVars, auVars, rpVars, lpVars, sseVars, pgVars, cpVars>>
notPg == <<coreVars, xtVars, gitVars, txVars, auVars, rpVars, lpVars, sseVars, rsVars, cpVars>>
notCp == <<coreVars, xtVars, gitVars, txVars, auVars, rpVars, lpVars, sseVars, rsVars, pgVars>>
vars == <<coreVars, auxVars>>

\* ----------------------------------------------------------------- chunker

\* LLMClient.count_tokens, the token counter the service hands to the chunker
count_tokens(text) == Len(text) \div 4

\* ChunkingConfig defaults
DefaultMaxTokens == 4000
DefaultOverlapTokens == 200
separator == <<"\n", "\n">>
fallback_separators == << <<"\n">>, <<".", " ">>, <<" ">> >>

\* the binary search stops once the window is this narrow
SearchWindow == 100

ChunkingConfig(mt, ov) == [max_tokens |-> mt, overlap_tokens |-> ov]

ChunkInfo(i, total, s, e, text) ==
    [index |-> i, total_chunks |-> total, start_char |-> s, end_char |-> e,
     token_count |-> count_tokens(text), text |-> text]

\* the while loop of _find_chunk_end: returns low
RECURSIVE BinarySearch(_, _, _, _, _)
BinarySearch(text, start, max_tokens, low, high) ==
    IF high - low > SearchWindow
    THEN LET mid == (low + high) \div 2
             tokens == count_tokens(PySlice(text, start, mid))
         IN  IF tokens <= max_tokens
             THEN BinarySearch(text, start, max_tokens, mid, high)
             ELSE BinarySearch(text, start, max_tokens, low, mid)
    ELSE low

\* the for loop of _find_chunk_end over the separators from the k-th on
RECURSIVE SnapToSeparator(_, _, _, _, _)
SnapToSeparator(text, start, candidate, seps, k) ==
    IF k > Len(seps) THEN candidate
    ELSE LET sep == seps[k]
             sep_pos == PyRFind(text, sep, start, candidate + Len(sep) * 2)
         IN  IF sep_pos > start
             THEN sep_pos + Len(sep)
             ELSE SnapToSeparator(text, start, candidate, seps, k + 1)

_find_chunk_end(text, start, max_tokens) ==
    LET low == BinarySearch(text, start, max_tokens, start, Len(text))
        candidate == SnapToSeparator(text, start, low,
                                     <<separator>> \o fallback_separators, 1)
    IN  IF candidate < Len(text) THEN candidate ELSE Len(text)

_tokens_to_chars(tokens, reference_text) ==
    IF reference_text = <<>> THEN tokens * 4
    ELSE LET ref_tokens == count_tokens(reference_text)
         IN  IF ref_tokens = 0 THEN tokens * 4
             ELSE PyIntDiv(tokens * Len(reference_text), ref_tokens)

\* a slip: a text of exactly max_tokens tokens is sent to the loop
chunk_Enter_StrictFit(text, max_tokens_arg, overlap_arg) ==
    LET max_tokens == PyOr(max_tokens_arg, ck_config.max_tokens)
        overlap == PyOr(overlap_arg, ck_config.overlap_tokens)
        total_tokens == count_tokens(text)
    IN  /\ ck_pc = "idle"
        /\ ck_text' = text
        /\ ck_max_tokens' = max_tokens
        /\ ck_overlap' = overlap
        /\ IF total_tokens < max_tokens
           THEN /\ ck_result' = <<[index |-> 0, total_chunks |-> 1, start_char |-> 0,
                                   end_char |-> Len(text),
                                   token_count |-> count_tokens(text), text |-> text]>>
                /\ ck_pc' = "done"
                /\ UNCHANGED <<current_pos, chunk_index, chunks>>
           ELSE /\ chunks' = <<>>
                /\ current_pos' = 0
                /\ chunk_index' = 0
                /\ ck_pc' = "loop"
                /\ UNCHANGED ck_result
        /\ UNCHANGED ck_config

\* chunk(), from its entry to the first test of the loop condition
chunk_Enter(text, max_tokens_arg, overlap_arg) ==
    LET max_tokens == PyOr(max_tokens_arg, ck_config.max_tokens)
        overlap == PyOr(overlap_arg, ck_config.overlap_tokens)
        total_tokens == count_tokens(text)
    IN  /\ ck_pc = "idle"
        /\ ck_text' = text
        /\ ck_max_tokens' = max_tokens
        /\ ck_overlap' = overlap
        /\ IF total_tokens <= max_tokens
           THEN /\ ck_result' = <<ChunkInfo(0, 1, 0, Len(text), text)>>
                /\ ck_pc' = "done"
                /\ UNCHANGED <<current_pos, chunk_index, chunks>>
           ELSE /\ chunks' = <<>>
                /\ current_pos' = 0
                /\ chunk_index' = 0
                /\ ck_pc' = "loop"
                /\ UNCHANGED ck_result
        /\ UNCHANGED ck_config

\* one pass through the body of chunk()'s while loop
chunk_LoopBody ==
    /\ ck_pc = "loop"
    /\ current_pos < Len(ck_text)
    /\ Len(chunks) < MaxChunks
    /\ LET chunk_end == _find_chunk_end(ck_text, current_pos, ck_max_tokens)
           chunk_text == PySlice(ck_text, current_pos, chunk_end)
           overlap_chars == _tokens_to_chars(ck_overlap, chunk_text)
       IN  /\ chunks' = Append(chunks,
                  ChunkInfo(chunk_index, 0, current_pos, chunk_end, chunk_text))
           /\ current_pos' = chunk_end - overlap_chars
           /\ chunk_index' = chunk_index + 1
    /\ UNCHANGED <<ck_config, ck_pc, ck_text, ck_max_tokens, ck_overlap, ck_result>>
    /\ UNCHANGED <<clVars, busVars, exVars, auxVars>>

\* a slip: the list is returned as the loop left it, total_chunks still 0
chunk_Return_TotalNotFilled ==
    /\ ck_pc = "loop"
    /\ ~(current_pos < Len(ck_text))
    /\ ck_result' = chunks
    /\ ck_pc' = "done"
    /\ UNCHANGED <<ck_config, ck_text, ck_max_tokens, ck_overlap,
                   current_pos, chunk_index, chunks>>
    /\ UNCHANGED <<clVars, busVars, exVars, auxVars>>

\* the loop condition fails: total_chunks is filled in and the list returned
chunk_Return ==
    /\ ck_pc = "loop"
    /\ ~(current_pos < Len(ck_text))
    /\ LET total == Len(chunks)
       IN  ck_result' = [k \in 1..total |->
               ChunkInfo(chunks[k].index, total, chunks[k].start_char,
                         chunks[k].end_char, chunks[k].text)]
    /\ ck_pc' = "done"
    /\ UNCHANGED <<ck_config, ck_text, ck_max_tokens, ck_overlap,
                   current_pos, chunk_index, chunks>>
    /\ UNCHANGED <<clVars, busVars, exVars, auxVars>>

\* ---- the inputs of the chunker specification

\* texts: empty, short, at and just over a 25-token budget, runs without and
\* with separators, runs cut at every blank line, and one longer than the
\* default budget of 4000 tokens
ChunkTexts ==
    { <<>>,
      Rep("x", 3),
      Rep("x", 103),
      Rep("x", 104),
      Rep("x", 300),
      RepStr(<<"x", "\n", "\n">>, 3),
      Rep("x", 53) \o separator \o RepStr(<<"x", "x", "\n", "\n">>, 12),
      RepStr(Rep("x", 48) \o <<".", " ">>, 5),
      Rep("x", 16100) }

ChunkMaxTokensArgs == { {}, {0}, {1}, {12}, {25} }
ChunkOverlapArgs == { {}, {10} }
ChunkConfigs ==
    { ChunkingConfig(DefaultMaxTokens, DefaultOverlapTokens),
      ChunkingConfig(DefaultMaxTokens, 0),
      ChunkingConfig(40, 0) }


ckIdle ==
    /\ ck_pc = "idle"
    /\ ck_text = <<>>
    /\ ck_max_tokens = 0
    /\ ck_overlap = 0
    /\ current_pos = 0
    /\ chunk_index = 0
    /\ chunks = <<>>
    /\ ck_result = <<>>

\* chunker.chunk(text, max_tokens, overlap) called on a fresh chunker
chunk_Call ==
    /\ \E text \in ChunkTexts, mt \in ChunkMaxTokensArgs, ov \in ChunkOverlapArgs :
           chunk_Enter(text, mt, ov)
    /\ UNCHANGED <<clVars, busVars, exVars, auxVars>>

\* ------------------------------------------------------ client and cache

\* LLMConfig defaults: max_retries = 3, temperature = 0.7 (in tenths)
DefaultMaxRetries == 3
DefaultTemperature == 7

\* at most this many complete() calls in one behaviour
MaxCalls == 2

\* the fields of the dataclass TokenUsage (src/core/types.py)
TokenUsageFields == {"prompt_tokens", "completion_tokens"}

\* TokenUsage(**kwargs): a dataclass accepts exactly its fields as keywords
TokenUsage(kwargs) ==
    IF DOMAIN kwargs = TokenUsageFields
    THEN [kind |-> "ok", value |-> kwargs]
    ELSE [kind |-> "raise", error |-> "TypeError"]

\* usage=None
NoUsage == [none |-> TRUE]

\* obj.name is defined
HasAttr(obj, name) == name \in DOMAIN obj

LLMResponse(content, model, usage, finish_reason, cached) ==
    [content |-> content, model |-> model, usage |-> usage,
     finish_reason |-> finish_reason, cached |-> cached]

\* _compute_cache_key: a digest of model, temperature and the messages; the
\* digest is taken to be free of collisions
_compute_cache_key(messages, temperature) ==
    <<cl_config.model, temperature, messages>>

\* ResponseCache.get: the row must exist and be unexpired at the call; the
\* entry is then built with TokenUsage(input_tokens=..., output_tokens=...)
ResponseCache_get(cache_key) ==
    IF /\ cache_key \in DOMAIN llm_cache
       /\ \/ llm_cache[cache_key].expires_at = {}
          \/ \E e \in llm_cache[cache_key].expires_at : e > now
    THEN LET row == llm_cache[cache_key]
             usage == TokenUsage([input_tokens |-> row.input_tokens,
                                  output_tokens |-> row.output_tokens])
         IN  IF usage.kind = "raise"
             THEN [kind |-> "raise", error |-> usage.error]
             ELSE [kind |-> "entry",
                   response |-> LLMResponse(row.response_content, row.model,
                                    usage.value, row.finish_reason, TRUE),
                   created_at |-> row.created_at,
                   expires_at |-> row.expires_at]
    ELSE [kind |-> "none"]

\* ResponseCache.set: the row is built from response.usage.input_tokens and
\* response.usage.output_tokens before the INSERT OR REPLACE is executed
ResponseCache_set(cache_key, response, ttl_arg, default_ttl) ==
    LET ttl == PyOr(ttl_arg, PyOr(default_ttl, 0))
        created_at == now
        expires_at == IF ttl # 0 THEN {created_at + ttl} ELSE {}
    IN  IF ~(HasAttr(response.usage, "input_tokens")
             /\ HasAttr(response.usage, "output_tokens"))
        THEN [kind |-> "raise", error |-> "AttributeError", rows |-> llm_cache]
        ELSE [kind |-> "ok",
              rows |-> [k \in DOMAIN llm_cache \cup {cache_key} |->
                  IF k = cache_key
                  THEN [response_content |-> response.content,
                        model |-> response.model,
                        input_tokens |-> response.usage.input_tokens,
                        output_tokens |-> response.usage.output_tokens,
                        finish_reason |-> response.finish_reason,
                        created_at |-> created_at,
                        expires_at |-> expires_at]
                  ELSE llm_cache[k]]]

\* one ResponseCache call as cache_log keeps it: the method, its arguments,
\* time.time() at the call, what it returned or raised, and the rows of the
\* table before and after it
CacheCall(op, key, ttl, result, after) ==
    [op |-> op, key |-> key, ttl |-> ttl, time |-> now, result |-> result,
     before |-> llm_cache, after |-> after]

\* what the backend may answer to one POST /chat/completions
HttpOk(content) ==
    [kind |-> "http", status |-> 200, content |-> content,
     usage |-> [prompt_tokens |-> 5, completion_tokens |-> 7]]
HttpError(status) == [kind |-> "http", status |-> status]
RequestError == [kind |-> "request_error"]
BackendAnswers == {HttpOk("answer"), HttpError(500), HttpError(404), RequestError}

MessageLists ==
    { <<[role |-> "user", content |-> "q1"]>>,
      <<[role |-> "system", content |-> "s"], [role |-> "user", content |-> "q2"]>> }

\* temperature arguments: None, 0.0, 0.1
TemperatureArgs == { {}, {0}, {1} }

\* complete() ends: the call is recorded with its outcome, the answers to
\* its POSTs and its backoff delays
Finish(kind, response, error) ==
    /\ calls' = Append(calls,
           [messages |-> cl_call.messages, temperature |-> cl_call.temperature,
            kind |-> kind, response |-> response, error |-> error,
            answers |-> [k \in 1..(Len(posts') - cl_call.first_post + 1) |->
                            posts'[cl_call.first_post + k - 1].answer],
            sleeps |-> sleeps,
            cache_calls |-> Len(cache_log') - cl_call.first_cache_call + 1,
            rows_before |-> cl_call.rows_before,
            rows_after |-> llm_cache'])
    /\ cl_pc' = "idle"

NoResponse == [none |-> TRUE]
NoError == [kind |-> "none"]

\* a slip: the cache is consulted whatever the temperature
complete_Call_CacheAnyTemperature ==
    /\ cl_pc = "idle"
    /\ Len(calls) < MaxCalls
    /\ \E messages \in MessageLists, temperature_arg \in TemperatureArgs :
          LET temperature == IF temperature_arg # {}
                             THEN CHOOSE t \in temperature_arg : TRUE
                             ELSE cl_config.temperature
          IN  /\ cl_call' = [messages |-> messages, temperature |-> temperature,
                             cache_key |-> _compute_cache_key(messages, temperature),
                             response |-> NoResponse,
                             first_post |-> Len(posts) + 1,
                             first_cache_call |-> Len(cache_log) + 1,
                             rows_before |-> llm_cache]
              /\ cl_pc' = IF cl_has_cache THEN "cache_get" ELSE "attempt"
    /\ attempt' = 0
    /\ last_error' = NoError
    /\ sleeps' = <<>>
    /\ UNCHANGED <<cl_config, cl_has_cache, cache_default_ttl, llm_cache, now,
                   posts, calls, cache_log>>
    /\ UNCHANGED <<streams, ckVars, busVars, exVars, auxVars>>

\* complete(), from its entry to the cache lookup or the first attempt
complete_Call ==
    /\ cl_pc = "idle"
    /\ Len(calls) < MaxCalls
    /\ \E messages \in MessageLists, temperature_arg \in TemperatureArgs :
          LET temperature == IF temperature_arg # {}
                             THEN CHOOSE t \in temperature_arg : TRUE
                             ELSE cl_config.temperature
          IN  /\ cl_call' = [messages |-> messages, temperature |-> temperature,
                             cache_key |-> _compute_cache_key(messages, temperature),
                             response |-> NoResponse,
                             first_post |-> Len(posts) + 1,
                             first_cache_call |-> Len(cache_log) + 1,
                             rows_before |-> llm_cache]
              /\ cl_pc' = IF cl_has_cache /\ temperature = 0
                          THEN "cache_get" ELSE "attempt"
    /\ attempt' = 0
    /\ last_error' = NoError
    /\ sleeps' = <<>>
    /\ UNCHANGED <<cl_config, cl_has_cache, cache_default_ttl, llm_cache, now,
                   posts, calls, cache_log>>
    /\ UNCHANGED <<streams, ckVars, busVars, exVars, auxVars>>

\* await self._cache.get(cache_key): a hit is returned with cached=True, a
\* miss goes on to the request, and a failure of get() leaves complete()
complete_CacheGet ==
    /\ cl_pc = "cache_get"
    /\ UNCHANGED <<posts, llm_cache>>
    /\ cache_log' = Append(cache_log,
           CacheCall("get", cl_call.cache_key, {},
                     ResponseCache_get(cl_call.cache_key), llm_cache))
    /\ LET cached == ResponseCache_get(cl_call.cache_key)
       IN  CASE cached.kind = "entry" ->
                  /\ Finish("return",
                         LLMResponse(cached.response.content, cached.response.model,
                                     cached.response.usage,
                                     cached.response.finish_reason, TRUE),
                         NoError)
                  /\ UNCHANGED cl_call
             [] cached.kind = "raise" ->
                  /\ Finish("raise", NoResponse,
                            [kind |-> "exception", type |-> cached.error])
                  /\ UNCHANGED cl_call
             [] cached.kind = "none" ->
                  /\ cl_pc' = "attempt"
                  /\ UNCHANGED <<cl_call, calls>>
    /\ UNCHANGED <<cl_config, cl_has_cache, cache_default_ttl, now,
                   attempt, last_error, sleeps>>
    /\ UNCHANGED <<streams, ckVars, busVars, exVars, auxVars>>

\* a slip: every HTTP error status is retried, not only those from 500 up
complete_Post_RetryClientErrors ==
    /\ cl_pc = "attempt"
    /\ attempt < cl_config.max_retries
    /\ UNCHANGED <<llm_cache, cache_log>>
    /\ \E answer \in BackendAnswers :
          /\ posts' = Append(posts, [attempt |-> attempt, answer |-> answer])
          /\ CASE answer.kind = "http" /\ answer.status = 200 ->
                    LET llm_response ==
                            LLMResponse(answer.content, cl_config.model,
                                        answer.usage, "stop", FALSE)
                    IN  IF cl_has_cache /\ cl_call.temperature = 0
                        THEN /\ cl_call' = [cl_call EXCEPT !.response = llm_response]
                             /\ cl_pc' = "cache_set"
                             /\ UNCHANGED <<calls, last_error>>
                        ELSE /\ Finish("return", llm_response, NoError)
                             /\ UNCHANGED <<cl_call, last_error>>
               [] answer.kind = "http" /\ answer.status >= 500 ->
                    /\ last_error' = answer
                    /\ cl_pc' = "backoff"
                    /\ UNCHANGED <<cl_call, calls>>
               [] answer.kind = "http" /\ answer.status # 200 /\ answer.status < 500 ->
                    /\ last_error' = answer
                    /\ cl_pc' = "backoff"
                    /\ UNCHANGED <<cl_call, calls>>
               [] answer.kind = "request_error" ->
                    /\ last_error' = answer
                    /\ cl_pc' = "backoff"
                    /\ UNCHANGED <<cl_call, calls>>
    /\ UNCHANGED <<cl_config, cl_has_cache, cache_default_ttl, now,
                   attempt, sleeps>>
    /\ UNCHANGED <<streams, ckVars, busVars, exVars, auxVars>>

\* one pass of the retry loop: the POST and what complete() does with the answer
complete_Post ==
    /\ cl_pc = "attempt"
    /\ attempt < cl_config.max_retries
    /\ UNCHANGED <<llm_cache, cache_log>>
    /\ \E answer \in BackendAnswers :
          /\ posts' = Append(posts, [attempt |-> attempt, answer |-> answer])
          /\ CASE answer.kind = "http" /\ answer.status = 200 ->
                    LET llm_response ==
                            LLMResponse(answer.content, cl_config.model,
                                        answer.usage, "stop", FALSE)
                    IN  IF cl_has_cache /\ cl_call.temperature = 0
                        THEN /\ cl_call' = [cl_call EXCEPT !.response = llm_response]
                             /\ cl_pc' = "cache_set"
                             /\ UNCHANGED <<calls, last_error>>
                        ELSE /\ Finish("return", llm_response, NoError)
                             /\ UNCHANGED <<cl_call, last_error>>
               [] answer.kind = "http" /\ answer.status >= 500 ->
                    /\ last_error' = answer
                    /\ cl_pc' = "backoff"
                    /\ UNCHANGED <<cl_call, calls>>
               [] answer.kind = "http" /\ answer.status # 200 /\ answer.status < 500 ->
                    /\ last_error' = answer
                    /\ Finish("raise", NoResponse, answer)
                    /\ UNCHANGED cl_call
               [] answer.kind = "request_error" ->
                    /\ last_error' = answer
                    /\ cl_pc' = "backoff"
                    /\ UNCHANGED <<cl_call, calls>>
    /\ UNCHANGED <<cl_config, cl_has_cache, cache_default_ttl, now,
                   attempt, sleeps>>
    /\ UNCHANGED <<streams, ckVars, busVars, exVars, auxVars>>

\* await self._cache.set(cache_key, llm_response), then return llm_response;
\* a failure of set() is none of the errors the retry loop handles
complete_CacheSet ==
    /\ cl_pc = "cache_set"
    /\ UNCHANGED posts
    /\ LET stored == ResponseCache_set(cl_call.cache_key, cl_call.response, {},
                                       cache_default_ttl)
       IN  /\ llm_cache' = stored.rows
           /\ cache_log' = Append(cache_log,
                  CacheCall("set", cl_call.cache_key, {},
                            [kind |-> stored.kind], stored.rows))
           /\ IF stored.kind = "raise"
              THEN Finish("raise", NoResponse,
                          [kind |-> "exception", type |-> stored.error])
              ELSE Finish("return", cl_call.response, NoError)
    /\ UNCHANGED <<cl_config, cl_has_cache, cache_default_ttl, now, cl_call,
                   attempt, last_error, sleeps>>
    /\ UNCHANGED <<streams, ckVars, busVars, exVars, auxVars>>

\* await asyncio.sleep(2 ** attempt); continue
complete_Backoff ==
    /\ cl_pc = "backoff"
    /\ now' = now + 2 ^ attempt
    /\ sleeps' = Append(sleeps, 2 ^ attempt)
    /\ attempt' = attempt + 1
    /\ cl_pc' = "attempt"
    /\ UNCHANGED <<cl_config, cl_has_cache, cache_default_ttl, llm_cache,
                   cl_call, last_error, posts, calls, cache_log>>
    /\ UNCHANGED <<streams, ckVars, busVars, exVars, auxVars>>

\* the retry loop has run out: RuntimeError("Failed after {max_retries}
\* retries: {last_error}")
complete_Exhausted ==
    /\ cl_pc = "attempt"
    /\ ~(attempt < cl_config.max_retries)
    /\ UNCHANGED <<posts, llm_cache, cache_log>>
    /\ Finish("raise", NoResponse,
              [kind |-> "exception", type |-> "RuntimeError",
               retries |-> cl_config.max_retries, last_error |-> last_error])
    /\ UNCHANGED <<cl_config, cl_has_cache, cache_default_ttl, now,
                   cl_call, attempt, last_error, sleeps>>
    /\ UNCHANGED <<streams, ckVars, busVars, exVars, auxVars>>

\* at most this many stream() calls in one behaviour
MaxStreams == 1

\* stream(), consumed to its end: one streaming POST, no retry and no cache;
\* raise_for_status() or the connection error leaves the generator, a 200
\* answer is yielded piece by piece
stream_Call ==
    /\ cl_pc = "idle"
    /\ Len(streams) < MaxStreams
    /\ \E messages \in MessageLists, temperature_arg \in TemperatureArgs,
          answer \in BackendAnswers :
          LET temperature == IF temperature_arg # {}
                             THEN CHOOSE t \in temperature_arg : TRUE
                             ELSE cl_config.temperature
          IN  /\ posts' = Append(posts, [attempt |-> 0, answer |-> answer])
              /\ streams' = Append(streams,
                     [messages |-> messages, temperature |-> temperature,
                      answer |-> answer,
                      kind |-> IF answer.kind = "http" /\ answer.status = 200
                               THEN "yield" ELSE "raise",
                      posts |-> 1,
                      cache_calls |-> 0,
                      rows_before |-> llm_cache,
                      rows_after |-> llm_cache])
    /\ UNCHANGED <<cl_config, cl_has_cache, cache_default_ttl, llm_cache, now,
                   cl_pc, cl_call, attempt, last_error, sleeps, calls, cache_log>>
    /\ UNCHANGED <<ckVars, busVars, exVars, auxVars>>

clIdle ==
    /\ llm_cache = <<>>
    /\ now = 0
    /\ cl_pc = "idle"
    /\ cl_call = [messages |-> <<>>, temperature |-> 0, cache_key |-> <<>>,
                  response |-> NoResponse, first_post |-> 1,
                  first_cache_call |-> 1, rows_before |-> <<>>]
    /\ attempt = 0
    /\ last_error = NoError
    /\ posts = <<>>
    /\ sleeps = <<>>
    /\ calls = <<>>
    /\ cache_log = <<>>
    /\ streams = <<>>

\* ------------------------------------------------ the cache used directly

\* at most this many direct ResponseCache calls in one behaviour, and the
\* last second the clock reaches
MaxCacheCalls == 3
MaxTime == 2

\* DELETE FROM llm_cache WHERE expires_at IS NOT NULL (a slip: the
\* comparison with the current time is lost)
ResponseCache_clear_expired_AnyExpiry ==
    LET expired == {k \in DOMAIN llm_cache : llm_cache[k].expires_at # {}}
    IN  [rows |-> [k \in DOMAIN llm_cache \ expired |-> llm_cache[k]],
         rowcount |-> Cardinality(expired)]

\* ResponseCache.clear_expired: DELETE FROM llm_cache WHERE expires_at IS
\* NOT NULL AND expires_at < time.time(); returns cursor.rowcount
ResponseCache_clear_expired ==
    LET expired == {k \in DOMAIN llm_cache :
                       \E e \in llm_cache[k].expires_at : e < now}
    IN  [rows |-> [k \in DOMAIN llm_cache \ expired |-> llm_cache[k]],
         rowcount |-> Cardinality(expired)]

\* SUM(input_tokens + output_tokens) over the rows with these keys
RECURSIVE SumTokens(_, _)
SumTokens(rows, keys) ==
    IF keys = {} THEN 0
    ELSE LET k == CHOOSE x \in keys : TRUE
         IN  rows[k].input_tokens + rows[k].output_tokens
                 + SumTokens(rows, keys \ {k})

\* ResponseCache.get_stats: COUNT(*), SUM(input_tokens + output_tokens) and
\* COUNT(CASE WHEN expires_at IS NOT NULL AND expires_at < time.time())
ResponseCache_get_stats ==
    [total_entries |-> Cardinality(DOMAIN llm_cache),
     total_tokens_cached |-> SumTokens(llm_cache, DOMAIN llm_cache),
     expired_entries |-> Cardinality({k \in DOMAIN llm_cache :
                             \E e \in llm_cache[k].expires_at : e < now})]

CacheKeys == {"k1", "k2"}

\* the ttl arguments of set(): None, 0, 1
TtlArgs == { {}, {0}, {1} }

\* the responses handed to set(): an LLMResponse with a TokenUsage, one
\* with usage=None, and an object whose usage has the attributes
\* input_tokens and output_tokens that set() reads
CacheResponses ==
    { LLMResponse("answer", "gpt-oss-20b",
                  [prompt_tokens |-> 5, completion_tokens |-> 7], "stop", FALSE),
      LLMResponse("answer", "gpt-oss-20b", NoUsage, "stop", FALSE),
      LLMResponse("answer", "gpt-oss-20b",
                  [input_tokens |-> 5, output_tokens |-> 7], "stop", FALSE) }

\* the client's variables a direct cache call leaves alone
clRest == <<cl_config, cl_has_cache, cache_default_ttl, cl_pc, cl_call,
            attempt, last_error, posts, sleeps, calls, streams>>

\* await cache.set(key, response, ttl)
cache_set ==
    /\ Len(cache_log) < MaxCacheCalls
    /\ \E key \in CacheKeys, response \in CacheResponses, ttl \in TtlArgs :
          LET stored == ResponseCache_set(key, response, ttl, cache_default_ttl)
          IN  /\ llm_cache' = stored.rows
              /\ cache_log' = Append(cache_log,
                     CacheCall("set", key, ttl, [kind |-> stored.kind], stored.rows))
    /\ UNCHANGED now
    /\ UNCHANGED <<clRest, ckVars, busVars, exVars, auxVars>>

\* await cache.get(key)
cache_get ==
    /\ Len(cache_log) < MaxCacheCalls
    /\ \E key \in CacheKeys :
          cache_log' = Append(cache_log,
              CacheCall("get", key, {}, ResponseCache_get(key), llm_cache))
    /\ UNCHANGED <<llm_cache, now>>
    /\ UNCHANGED <<clRest, ckVars, busVars, exVars, auxVars>>

\* await cache.clear_expired()
cache_clear_expired ==
    /\ Len(cache_log) < MaxCacheCalls
    /\ llm_cache' = ResponseCache_clear_expired.rows
    /\ cache_log' = Append(cache_log,
           CacheCall("clear_expired", "", {},
                     [kind |-> "ok", rowcount |-> ResponseCache_clear_expired.rowcount],
                     ResponseCache_clear_expired.rows))
    /\ UNCHANGED now
    /\ UNCHANGED <<clRest, ckVars, busVars, exVars, auxVars>>

\* await cache.get_stats()
cache_get_stats ==
    /\ Len(cache_log) < MaxCacheCalls
    /\ cache_log' = Append(cache_log,
           CacheCall("get_stats", "", {},
                     [kind |-> "ok", stats |-> ResponseCache_get_stats], llm_cache))
    /\ UNCHANGED <<llm_cache, now>>
    /\ UNCHANGED <<clRest, ckVars, busVars, exVars, auxVars>>

\* time.time() moves on between two calls
cache_Tick ==
    /\ now < MaxTime
    /\ now' = now + 1
    /\ UNCHANGED <<llm_cache, cache_log>>
    /\ UNCHANGED <<clRest, ckVars, busVars, exVars, auxVars>>

\* --------------------------------------------------------------- event bus

\* at most this many subscriptions at a time, over all keys
MaxSubscriptions == 4

Handlers == {"H1", "H2", "H3", "W"}
EventTypes == {"PaperCreatedEvent", "NoteCreatedEvent"}
Wildcard == "*"
BusKeys == EventTypes \cup {Wildcard}
NoEvent == "none"

\* what a call of a handler may do: return, or raise an Exception
HandlerOutcomes == {"returns", "raises"}

RECURSIVE SumLen(_, _)
SumLen(f, keys) ==
    IF keys = {} THEN 0
    ELSE LET k == CHOOSE x \in keys : TRUE
         IN  Len(f[k]) + SumLen(f, keys \ {k})

\* list.remove(x): the list without its first element equal to x
ListRemove(list, x) ==
    LET first == CHOOSE i \in 1..Len(list) :
                     list[i] = x /\ \A j \in 1..(i - 1) : list[j] # x
    IN  SubSeq(list, 1, first - 1) \o SubSeq(list, first + 1, Len(list))

\* x in list
ListHas(list, x) == \E i \in 1..Len(list) : list[i] = x

\* pb_event, pb_at_call, invoked and pb_propagated record the last publish
\* only until the subscriptions change
ForgetLastPublish ==
    /\ pb_event' = NoEvent
    /\ pb_at_call' = subscribers'
    /\ invoked' = <<>>
    /\ pb_propagated' = FALSE

subscribe ==
    /\ pb_pc = "idle"
    /\ SumLen(subscribers, BusKeys) < MaxSubscriptions
    /\ \E event_type \in BusKeys, handler \in Handlers :
          subscribers' = [subscribers EXCEPT
                             ![event_type] = Append(@, handler)]
    /\ ForgetLastPublish
    /\ UNCHANGED <<pb_pc, pb_iter>>
    /\ UNCHANGED <<ckVars, clVars, exVars, auxVars>>

unsubscribe ==
    /\ pb_pc = "idle"
    /\ \E event_type \in BusKeys, handler \in Handlers :
          subscribers' =
              IF ListHas(subscribers[event_type], handler)
              THEN [subscribers EXCEPT ![event_type] = ListRemove(@, handler)]
              ELSE subscribers
    /\ ForgetLastPublish
    /\ UNCHANGED <<pb_pc, pb_iter>>
    /\ UNCHANGED <<ckVars, clVars, exVars, auxVars>>

\* publish(event), up to its first for loop
publish_Call ==
    /\ pb_pc = "idle"
    /\ \E event_type \in EventTypes : pb_event' = event_type
    /\ pb_pc' = "typed"
    /\ pb_iter' = 0
    /\ pb_at_call' = subscribers
    /\ invoked' = <<>>
    /\ pb_propagated' = FALSE
    /\ UNCHANGED subscribers
    /\ UNCHANGED <<ckVars, clVars, exVars, auxVars>>

\* a slip: the list is walked from its end
Deliver_Reversed(key) ==
    /\ pb_iter < Len(subscribers[key])
    /\ \E outcome \in HandlerOutcomes :
          invoked' = Append(invoked,
              [handler |-> subscribers[key][Len(subscribers[key]) - pb_iter],
               key |-> key, outcome |-> outcome])
    /\ pb_iter' = pb_iter + 1
    /\ UNCHANGED <<subscribers, pb_pc, pb_event, pb_at_call, pb_propagated>>

\* a slip: no try/except around the call, so a failure leaves publish()
Deliver_Uncaught(key) ==
    /\ pb_iter < Len(subscribers[key])
    /\ \E outcome \in HandlerOutcomes :
          /\ invoked' = Append(invoked,
                 [handler |-> subscribers[key][pb_iter + 1], key |-> key,
                  outcome |-> outcome])
          /\ pb_pc' = IF outcome = "raises" THEN "idle" ELSE pb_pc
          /\ pb_propagated' = (outcome = "raises")
    /\ pb_iter' = pb_iter + 1
    /\ UNCHANGED <<subscribers, pb_event, pb_at_call>>

\* one pass of a for loop of publish() over _subscribers[key]: the handler
\* is called inside try/except Exception, so its failure is printed and the
\* loop goes on
Deliver(key) ==
    /\ pb_iter < Len(subscribers[key])
    /\ \E outcome \in HandlerOutcomes :
          invoked' = Append(invoked,
              [handler |-> subscribers[key][pb_iter + 1], key |-> key,
               outcome |-> outcome])
    /\ pb_iter' = pb_iter + 1
    /\ UNCHANGED <<subscribers, pb_pc, pb_event, pb_at_call, pb_propagated>>

publish_Typed ==
    /\ pb_pc = "typed"
    /\ Deliver(pb_event)
    /\ UNCHANGED <<ckVars, clVars, exVars, auxVars>>

\* the first for loop is exhausted: on to the wildcard subscribers
publish_TypedEnd ==
    /\ pb_pc = "typed"
    /\ ~(pb_iter < Len(subscribers[pb_event]))
    /\ pb_pc' = "wildcard"
    /\ pb_iter' = 0
    /\ UNCHANGED <<subscribers, pb_event, pb_at_call, invoked, pb_propagated>>
    /\ UNCHANGED <<ckVars, clVars, exVars, auxVars>>

publish_Wildcard ==
    /\ pb_pc = "wildcard"
    /\ Deliver(Wildcard)
    /\ UNCHANGED <<ckVars, clVars, exVars, auxVars>>

\* the second for loop is exhausted: publish() returns
publish_Return ==
    /\ pb_pc = "wildcard"
    /\ ~(pb_iter < Len(subscribers[Wildcard]))
    /\ pb_pc' = "idle"
    /\ UNCHANGED <<subscribers, pb_event, pb_iter, pb_at_call, invoked, pb_propagated>>
    /\ UNCHANGED <<ckVars, clVars, exVars, auxVars>>

\* at most this many handlers change the subscriptions during one publish
MaxEffects == 1

\* what a handler called for `key` may do to the bus while it runs: nothing,
\* or subscribe a handler to that key, or unsubscribe one (itself or
\* another) from it
HandlerEffects(key) ==
    {[op |-> "none"]}
    \cup {[op |-> o, key |-> key, handler |-> h] :
              o \in {"subscribe", "unsubscribe"}, h \in Handlers}

\* _subscribers after the handler has done that
AfterEffect(subs, effect) ==
    IF effect.op = "subscribe"
    THEN [subs EXCEPT ![effect.key] = Append(@, effect.handler)]
    ELSE IF effect.op = "unsubscribe" /\ ListHas(subs[effect.key], effect.handler)
    THEN [subs EXCEPT ![effect.key] = ListRemove(@, effect.handler)]
    ELSE subs

\* one pass of a for loop of publish() when handlers may call subscribe()
\* and unsubscribe(): the loop's iterator reads _subscribers[key] itself,
\* at its own index, on every pass
DeliverReentrant(key) ==
    /\ pb_iter < Len(subscribers[key])
    /\ \E outcome \in HandlerOutcomes, effect \in HandlerEffects(key) :
          /\ effect.op # "none" =>
                 /\ outcome = "returns"
                 /\ Cardinality({k \in 1..Len(invoked) :
                        invoked[k].effect.op # "none"}) < MaxEffects
          /\ effect.op = "subscribe" =>
                 SumLen(subscribers, BusKeys) < MaxSubscriptions
          /\ invoked' = Append(invoked,
                 [handler |-> subscribers[key][pb_iter + 1], key |-> key,
                  outcome |-> outcome, effect |-> effect])
          /\ subscribers' = AfterEffect(subscribers, effect)
    /\ pb_iter' = pb_iter + 1
    /\ UNCHANGED <<pb_pc, pb_event, pb_at_call, pb_propagated>>

publish_TypedReentrant ==
    /\ pb_pc = "typed"
    /\ DeliverReentrant(pb_event)
    /\ UNCHANGED <<ckVars, clVars, exVars, auxVars>>

busIdle ==
    /\ subscribers = [k \in BusKeys |-> <<>>]
    /\ pb_pc = "idle"
    /\ pb_event = NoEvent
    /\ pb_iter = 0
    /\ pb_at_call = [k \in BusKeys |-> <<>>]
    /\ invoked = <<>>
    /\ pb_propagated = FALSE

\* ------------------------------------------------------ extraction service

\* the context window of every model (src/llm/config.py) and the tokens
\* extract_paper reserves for the response
ContextWindow == 8192
ResponseReserve == 4000

ExtractionStartedEvent(paper_id) ==
    [type |-> "ExtractionStartedEvent", paper_id |-> paper_id]
ExtractionProgressEvent(paper_id, stage, progress) ==
    [type |-> "ExtractionProgressEvent", paper_id |-> paper_id,
     stage |-> stage, progress |-> progress]
ExtractionCompletedEvent(paper_id, success, pages_created, notes_created) ==
    [type |-> "ExtractionCompletedEvent", paper_id |-> paper_id,
     success |-> success, pages_created |-> pages_created,
     notes_created |-> notes_created]

\* a progress value as an exact fraction num/den, and their order
Fraction(num, den) == [num |-> num, den |-> den]
FractionLe(a, b) == a.num * b.den <= b.num * a.den

\* a slip: the stage before the extraction reports more than the extraction
StageProgress_AnalyzingAhead(stage) ==
    CASE stage = "parsing" -> Fraction(1, 10)
      [] stage = "analyzing" -> Fraction(5, 10)
      [] stage = "chunking" -> Fraction(3, 10)
      [] stage = "extracting" -> Fraction(4, 10)
      [] stage = "finalizing" -> Fraction(9, 10)
      [] stage = "complete" -> Fraction(10, 10)

\* the progress extract_paper passes to _publish_progress for each stage:
\* 0.1, 0.2, 0.3, 0.4, 0.9, 1.0
StageProgress(stage) ==
    CASE stage = "parsing" -> Fraction(1, 10)
      [] stage = "analyzing" -> Fraction(2, 10)
      [] stage = "chunking" -> Fraction(3, 10)
      [] stage = "extracting" -> Fraction(4, 10)
      [] stage = "finalizing" -> Fraction(9, 10)
      [] stage = "complete" -> Fraction(10, 10)

\* the progress _extract_chunked passes for chunk i of n:
\* 0.3 + (0.5 * (i / n)) = (3n + 5i) / 10n
ChunkProgress(i, n) == Fraction(3 * n + 5 * i, 10 * n)

\* _publish_progress that leaves out the "finalizing" stage
Progress_NoFinalizing(events, paper_id, stage) ==
    IF stage = "finalizing" THEN events
    ELSE Append(events, ExtractionProgressEvent(paper_id, stage, StageProgress(stage)))

\* _publish_progress appended to the events published so far
Progress(events, paper_id, stage) ==
    Append(events, ExtractionProgressEvent(paper_id, stage, StageProgress(stage)))

\* an exception object: its class and its argument
Exception(type, arg) == [type |-> type, arg |-> arg]

Ok(value) == [ok |-> TRUE, value |-> value]
Err(error) == [ok |-> FALSE, error |-> error]

\* a slip: the except clause returns the error without publishing
OnException_Silent(events, paper_id, e) ==
    [published |-> events, returned |-> Err(e)]

\* the except clause of extract_paper: one ExtractionCompletedEvent with
\* success=False and zero counts, then Err(e)
OnException(events, paper_id, e) ==
    [published |-> Append(events, ExtractionCompletedEvent(paper_id, FALSE, 0, 0)),
     returned |-> Err(e)]

\* LLMConfig.get_base_url() of the default backend
get_base_url == "http://localhost:1234/v1"

ConnectionError(base_url) == Exception("ConnectionError", base_url)

\* a slip: the "parsing" progress is published before the health check is
\* looked at
OnUnavailable_ProgressFirst(events, paper_id) ==
    [published |-> Progress(events, paper_id, "parsing"),
     returned |-> Err(ConnectionError(get_base_url))]

\* the health check answered False: Err(ConnectionError("LLM backend not
\* available at {base_url}. ...")), nothing published
OnUnavailable(events, paper_id) ==
    [published |-> events, returned |-> Err(ConnectionError(get_base_url))]

\* entries of the lists an LLM answer may hold: a dict, or something else
Dict(name, text) == [is_dict |-> TRUE, name |-> name, text |-> text]
NotADict == [is_dict |-> FALSE]

ExtractionData(sections_is_dict, sections, main_concepts, algorithms) ==
    [sections_is_dict |-> sections_is_dict, sections |-> sections,
     main_concepts |-> main_concepts, algorithms |-> algorithms]

\* what BaseExtractor.extract may return to _extract_full: a failure, or a
\* success whose data is whatever JSON the model answered
ExtractionResults ==
    { [success |-> FALSE, data |-> ExtractionData(TRUE, <<>>, <<>>, <<>>)],
      [success |-> TRUE, data |-> ExtractionData(TRUE, <<>>, <<>>, <<>>)],
      [success |-> TRUE,
       data |-> ExtractionData(TRUE, <<Dict("intro", "text"), Dict("method", "")>>,
                               <<Dict("entropy", "definition")>>,
                               <<Dict("huffman", "purpose")>>)],
      [success |-> TRUE,
       data |-> ExtractionData(FALSE, <<Dict("intro", "text")>>,
                               <<Dict("entropy", "definition")>>, <<>>)],
      [success |-> TRUE,
       data |-> ExtractionData(TRUE, <<>>, <<NotADict>>, <<>>)] }

\* title.replace("_", " ").title() of a section key
SectionTitle(key) == <<"title-cased", key>>

\* the pages of one group, each group counting its positions from 0
PagesOf_FromZero(items, category, position) ==
    [k \in 1..Len(items) |->
        [title |-> IF category = "section" THEN SectionTitle(items[k].name)
                   ELSE items[k].name,
         category |-> category,
         position |-> k - 1, suggested_content |-> items[k].text]]

\* the pages of one group, with positions counted on from `position`
PagesOf(items, category, position) ==
    [k \in 1..Len(items) |->
        [title |-> IF category = "section" THEN SectionTitle(items[k].name)
                   ELSE items[k].name,
         category |-> category,
         position |-> position + k - 1, suggested_content |-> items[k].text]]

\* _generate_page_suggestions: sections (when a dict), then concepts, then
\* algorithms; concept.get / algo.get fails on an entry that is no dict
_generate_page_suggestions(data) ==
    LET sections == IF data.sections_is_dict THEN data.sections ELSE <<>>
        s_pages == PagesOf(sections, "section", 0)
        c_pages == PagesOf(data.main_concepts, "concept", Len(s_pages))
        a_pages == PagesOf(data.algorithms, "algorithm",
                           Len(s_pages) + Len(c_pages))
    IN  IF \E k \in 1..Len(data.main_concepts) : ~data.main_concepts[k].is_dict
        THEN [kind |-> "raise", error |-> Exception("AttributeError", "get")]
        ELSE IF \E k \in 1..Len(data.algorithms) : ~data.algorithms[k].is_dict
        THEN [kind |-> "raise", error |-> Exception("AttributeError", "get")]
        ELSE [kind |-> "ok", pages |-> s_pages \o c_pages \o a_pages]

\* the texts PDFParser.parse may return: some that fit the context window
\* and one that does not
ParsedTexts ==
    { <<>>, Rep("x", 40), Rep("x", 4 * (ContextWindow - ResponseReserve) + 3),
      Rep("x", 4 * (ContextWindow - ResponseReserve) + 4),
      RepStr(Rep("x", 998) \o <<"\n", "\n">>, 17) }

PaperInputs ==
    { [paper_id |-> "paper-1", title |-> "A"],
      [paper_id |-> "paper-2", title |-> "B"],
      [paper_id |-> "paper-3", title |-> "A"] }

\* extract_paper, from its entry to the await of the health check
extract_Begin ==
    /\ ex_pc = "idle"
    /\ \E input_data \in PaperInputs :
          /\ ex_input' = input_data
          /\ published' = <<ExtractionStartedEvent(input_data.paper_id)>>
    /\ ex_pc' = "health_check"
    /\ ex_calls' = <<"check_backend_health">>
    /\ UNCHANGED <<ex_text, ex_raised, ex_return>>
    /\ UNCHANGED <<ckVars, clVars, busVars, auxVars>>

\* extract_paper, from the answer of the health check to the next await
\* (_extract_full) or to the call of the chunker
extract_Prepare ==
    /\ ex_pc = "health_check"
    /\ \E healthy \in BOOLEAN, pdf_exists \in BOOLEAN,
          parsed \in {[kind |-> "raise", error |-> Exception("ImportError", "")]}
                     \cup {[kind |-> "ok", text |-> t] : t \in ParsedTexts} :
          LET id == ex_input.paper_id
              ev1 == Progress(published, id, "parsing")
              ev2 == Progress(ev1, id, "analyzing")
              max_tokens == ContextWindow - ResponseReserve
          IN  IF ~healthy
              THEN /\ published' = OnUnavailable(published, id).published
                   /\ ex_return' = {OnUnavailable(published, id).returned}
                   /\ ex_pc' = "returned"
                   /\ UNCHANGED <<ex_text, ex_raised, ex_calls>>
                   /\ UNCHANGED ckVars
              ELSE IF ~pdf_exists
              THEN /\ published' = ev1
                   /\ ex_return' = {Err(Exception("FileNotFoundError", "pdf_path"))}
                   /\ ex_pc' = "returned"
                   /\ UNCHANGED <<ex_text, ex_raised, ex_calls>>
                   /\ UNCHANGED ckVars
              ELSE IF parsed.kind = "raise"
              THEN /\ published' = OnException(ev1, id, parsed.error).published
                   /\ ex_return' = {OnException(ev1, id, parsed.error).returned}
                   /\ ex_raised' = {parsed.error}
                   /\ ex_pc' = "returned"
                   /\ ex_calls' = Append(ex_calls, "PDFParser.parse")
                   /\ UNCHANGED ex_text
                   /\ UNCHANGED ckVars
              ELSE IF count_tokens(parsed.text) > max_tokens
              THEN /\ published' = Progress(ev2, id, "chunking")
                   /\ ex_text' = parsed.text
                   /\ chunk_Enter(parsed.text, {max_tokens}, {})
                   /\ ex_pc' = "chunking"
                   /\ ex_calls' = ex_calls \o <<"PDFParser.parse", "_extract_chunked">>
                   /\ UNCHANGED <<ex_raised, ex_return>>
              ELSE /\ published' = Progress(ev2, id, "extracting")
                   /\ ex_text' = parsed.text
                   /\ ex_pc' = "extracting"
                   /\ ex_calls' = ex_calls \o <<"PDFParser.parse", "_extract_full">>
                   /\ UNCHANGED <<ex_raised, ex_return>>
                   /\ UNCHANGED ckVars
    /\ UNCHANGED ex_input
    /\ UNCHANGED <<clVars, busVars, auxVars>>

\* extract_paper, from the result of _extract_full to its return
extract_Finish ==
    /\ ex_pc = "extracting"
    /\ \E result \in ExtractionResults :
          LET id == ex_input.paper_id
              ev1 == Progress(published, id, "finalizing")
              suggested == _generate_page_suggestions(result.data)
              ev2 == Progress(ev1, id, "complete")
          IN  IF ~result.success
              THEN /\ ex_return' = {Err(Exception("Exception", "Extraction failed"))}
                   /\ UNCHANGED <<published, ex_raised>>
              ELSE IF suggested.kind = "raise"
              THEN /\ published' = OnException(ev1, id, suggested.error).published
                   /\ ex_return' = {OnException(ev1, id, suggested.error).returned}
                   /\ ex_raised' = {suggested.error}
              ELSE /\ published' = Append(ev2,
                          ExtractionCompletedEvent(id, TRUE, Len(suggested.pages), 0))
                   /\ ex_return' = {Ok([title |-> ex_input.title,
                                        main_concepts |-> result.data.main_concepts,
                                        algorithms |-> result.data.algorithms,
                                        suggested_pages |-> suggested.pages])}
                   /\ UNCHANGED ex_raised
    /\ ex_pc' = "returned"
    /\ UNCHANGED <<ex_input, ex_text, ex_calls>>
    /\ UNCHANGED <<ckVars, clVars, busVars, auxVars>>

exIdle ==
    /\ ex_pc = "idle"
    /\ ex_input = [paper_id |-> "", title |-> ""]
    /\ ex_text = <<>>
    /\ published = <<>>
    /\ ex_raised = {}
    /\ ex_return = {}
    /\ ex_calls = <<>>

\* ------------------------------------------------------------ extractors

\* at most this many extract() calls in one behaviour
MaxExtracts == 2

\* the characters \w matches, of those the templates here are written in
WordChars == {"a", "b", "c", "e", "i", "l", "n", "o", "r", "s", "t", "_"}

\* the variable names used, as strings of characters
K_content == <<"c", "o", "n", "t", "e", "n", "t">>
K_title == <<"t", "i", "t", "l", "e">>
K_abstract == <<"a", "b", "s", "t", "r", "a", "c", "t">>

\* f"{{{key}}}": the placeholder of a variable in a template
Placeholder(key) == <<"{">> \o key \o <<"}">>

\* PromptTemplate.get_required_variables: set(re.findall(r"\{(\w+)\}",
\* template)), the words that stand between a "{" and the next "}"
get_required_variables(template) ==
    { SubSeq(template, i + 1, j - 1) :
        <<i, j>> \in { p \in (1..Len(template)) \X (1..Len(template)) :
                          /\ p[1] + 1 < p[2]
                          /\ template[p[1]] = "{"
                          /\ template[p[2]] = "}"
                          /\ \A k \in (p[1] + 1)..(p[2] - 1) :
                                template[k] \in WordChars } }

\* the keys of an ordered dict kept as a sequence of <<key, value>> pairs
Keys(kwargs) == { kwargs[k][1] : k \in 1..Len(kwargs) }

\* a slip: a template variable absent from the arguments is not reported
validate_variables_Lenient(template, kwargs) == {}

\* PromptTemplate.validate_variables: required - provided
validate_variables(template, kwargs) ==
    get_required_variables(template) \ Keys(kwargs)

\* str.replace(old, new): every occurrence, leftmost first, not overlapping
RECURSIVE StrReplace(_, _, _)
StrReplace(str, old, new) ==
    IF Len(str) < Len(old) THEN str
    ELSE IF SubSeq(str, 1, Len(old)) = old
    THEN new \o StrReplace(SubSeq(str, Len(old) + 1, Len(str)), old, new)
    ELSE <<str[1]>> \o StrReplace(Tail(str), old, new)

\* PromptTemplate.render: one replace per keyword argument, in their order
RECURSIVE render(_, _)
render(template, kwargs) ==
    IF kwargs = <<>> THEN template
    ELSE render(StrReplace(template, Placeholder(kwargs[1][1]), kwargs[1][2]),
                Tail(kwargs))

\* BaseExtractor._build_messages: the system prompt, then the user content
_build_messages(user_content) ==
    << [role |-> "system", content |-> "system prompt"],
       [role |-> "user", content |-> user_content] >>

\* the number of keys _get_expected_keys names (PaperExtractor: 5)
ExpectedKeys == 5

\* what _process_response made of the answer: nothing, the fallback that
\* marks a parse error, or a dict with so many of the expected keys filled
ProcessedData ==
    { [empty |-> TRUE, parse_error |-> FALSE, present |-> 0],
      [empty |-> FALSE, parse_error |-> TRUE, present |-> 0],
      [empty |-> FALSE, parse_error |-> FALSE, present |-> 3],
      [empty |-> FALSE, parse_error |-> FALSE, present |-> ExpectedKeys] }

EmptyData == [empty |-> TRUE, parse_error |-> FALSE, present |-> 0]

\* BaseExtractor._calculate_confidence
_calculate_confidence(data) ==
    IF data.empty \/ data.parse_error THEN Fraction(0, 1)
    ELSE Fraction(data.present, ExpectedKeys)

ExtractionResult(success, data, confidence, raw_response, errors) ==
    [success |-> success, data |-> data, confidence |-> confidence,
     raw_response |-> raw_response, errors |-> errors]

\* str(e) of an exception raised with one argument
PyStr(e) == e.arg

\* an except clause that lets the exception leave extract()
extract_Except_Propagates(e) ==
    [raised |-> {e},
     result |-> ExtractionResult(FALSE, EmptyData, Fraction(0, 1), "", <<PyStr(e)>>)]

\* extract(): `except Exception as e`
extract_Except(e) ==
    [raised |-> {},
     result |-> ExtractionResult(FALSE, EmptyData, Fraction(0, 1), "", <<PyStr(e)>>)]

\* what the try block of extract() may meet: complete() raises after its
\* retries or on a 4xx answer; the answer's content is None, or its JSON is
\* a list, so that processing it raises; or the answer is processed
ExtractOutcomes ==
    { [kind |-> "complete_raises",
       error |-> Exception("RuntimeError", "LLM request failed after 3 attempts")],
      [kind |-> "complete_raises", error |-> Exception("HTTPStatusError", "404")],
      [kind |-> "process_raises",
       error |-> Exception("TypeError", "expected string or bytes-like object")],
      [kind |-> "process_raises",
       error |-> Exception("AttributeError", "'list' object has no attribute 'get'")] }
    \cup {[kind |-> "response", data |-> d] : d \in ProcessedData}

\* the prompt templates: two variables beside a JSON example in doubled
\* braces, the content alone, and three variables
PromptTemplates ==
    { <<"t", ":">> \o Placeholder(K_title) \o <<" ">> \o Placeholder(K_content)
          \o <<"{", "{", "\"", "a", "\"", "}", "}">>,
      Placeholder(K_content),
      Placeholder(K_title) \o Placeholder(K_abstract) \o Placeholder(K_content) }

ExtractContents == { <<"x">>, <<"y">> \o Placeholder(K_title) }

\* the context argument: None, or a dict
ExtractContexts ==
    { <<>>,
      << <<K_title, <<"A">> >> >>,
      << <<K_abstract, <<"B">> >> >>,
      << <<K_title, <<"A">> >>, <<K_abstract, <<"B">> >> >> }

\* extract() ends: the call is recorded with its result and the complete()
\* calls it made
ExtractDone(result, llm_calls, raised, met) ==
    /\ xt_done' = Append(xt_done,
           [template |-> xt_call'.template, content |-> xt_call'.content,
            context |-> xt_call'.context, result |-> result,
            raised |-> raised, met |-> met,
            llm_calls |-> llm_calls])
    /\ xt_pc' = "idle"

\* extract(), from its entry to the failure for missing variables or to the
\* await of client.complete(messages, temperature=0.1)
extractor_Call ==
    /\ xt_pc = "idle"
    /\ Len(xt_done) < MaxExtracts
    /\ \E template \in PromptTemplates, content \in ExtractContents,
          context \in ExtractContexts :
          LET template_vars == << <<K_content, content>> >> \o context
              missing == validate_variables(template, template_vars)
              messages == _build_messages(render(template, template_vars))
          IN  /\ xt_call' = [template |-> template, content |-> content,
                             context |-> context, messages |-> messages]
              /\ IF missing # {}
                 THEN /\ xt_llm_calls' = <<>>
                      /\ ExtractDone(ExtractionResult(FALSE, EmptyData,
                             Fraction(0, 1), "", <<[missing |-> missing]>>),
                             <<>>, {}, [kind |-> "missing"])
                 ELSE /\ xt_llm_calls' =
                             <<[messages |-> messages, temperature |-> 1]>>
                      /\ xt_pc' = "awaiting"
                      /\ UNCHANGED xt_done
    /\ UNCHANGED notXt

\* extract(), from the outcome of client.complete() to its return
extractor_Answer ==
    /\ xt_pc = "awaiting"
    /\ UNCHANGED <<xt_call, xt_llm_calls>>
    /\ \E outcome \in ExtractOutcomes :
          IF outcome.kind # "response"
          THEN ExtractDone(extract_Except(outcome.error).result, xt_llm_calls,
                           extract_Except(outcome.error).raised, outcome)
          ELSE ExtractDone(ExtractionResult(TRUE, outcome.data,
                               _calculate_confidence(outcome.data), "content",
                               <<>>),
                           xt_llm_calls, {}, outcome)
    /\ UNCHANGED notXt

xtIdle ==
    /\ xt_pc = "idle"
    /\ xt_call = [template |-> <<>>, content |-> <<>>, context |-> <<>>,
                  messages |-> <<>>]
    /\ xt_llm_calls = <<>>
    /\ xt_done = <<>>

\* ------------------------------------------------------------- git manager

MaxRebases == 2

\* settings.default_branch
default_branch == "main"

Files == {"a", "b"}

Commit(file, id) == [file |-> file, id |-> id]

\* the content a branch's commits give a file: the last commit that touched it
RECURSIVE Blob(_, _)
Blob(commits, file) ==
    IF commits = <<>> THEN "c0"
    ELSE IF commits[Len(commits)].file = file THEN commits[Len(commits)].id
    ELSE Blob(SubSeq(commits, 1, Len(commits) - 1), file)

IsPrefix(s, t) == Len(s) <= Len(t) /\ SubSeq(t, 1, Len(s)) = s

\* the merge base of two branches: their longest common prefix
MergeBase(s, t) ==
    SetMax({n \in 0..Len(s) : n <= Len(t) /\ SubSeq(s, 1, n) = SubSeq(t, 1, n)})

GitCommandError(command) == Exception("GitCommandError", command)

IndexError(name) == Exception("IndexError", name)

\* what one git command does: whether it failed, and the repository after it
GitOutcome(ok, heads, head, rebasing) ==
    [ok |-> ok, heads |-> heads, HEAD |-> head, rebasing |-> rebasing]

\* git checkout <name>: refused when it would overwrite a local change
git_checkout(name) ==
    IF \E f \in git_dirty :
           Blob(git_heads[git_HEAD], f) # Blob(git_heads[name], f)
    THEN GitOutcome(FALSE, git_heads, git_HEAD, git_rebasing)
    ELSE GitOutcome(TRUE, git_heads, name, git_rebasing)

\* git rebase <upstream>, run with a branch checked out: refused on a dirty
\* tree; stops, with the rebase in progress and HEAD detached, when a commit
\* to replay touches a file the upstream changed since the merge base
git_rebase(upstream) ==
    LET mine == git_heads[git_HEAD]
        theirs == git_heads[upstream]
        base == MergeBase(mine, theirs)
        picks == SubSeq(mine, base + 1, Len(mine))
        news == SubSeq(theirs, base + 1, Len(theirs))
    IN  IF git_dirty # {}
        THEN GitOutcome(FALSE, git_heads, git_HEAD, git_rebasing)
        ELSE IF \E i \in 1..Len(picks), j \in 1..Len(news) :
                    picks[i].file = news[j].file
        THEN GitOutcome(FALSE, git_heads, "detached", {git_HEAD})
        ELSE GitOutcome(TRUE, [git_heads EXCEPT ![git_HEAD] = theirs \o picks],
                        git_HEAD, git_rebasing)

\* git merge --ff-only <name>: moves the current branch up to <name> when
\* <name> descends from it, does nothing when already up to date
git_merge_ff_only(name) ==
    LET mine == git_heads[git_HEAD]
        theirs == git_heads[name]
    IN  IF IsPrefix(theirs, mine)
        THEN GitOutcome(TRUE, git_heads, git_HEAD, git_rebasing)
        ELSE IF IsPrefix(mine, theirs)
                /\ \A f \in git_dirty : Blob(mine, f) = Blob(theirs, f)
        THEN GitOutcome(TRUE, [git_heads EXCEPT ![git_HEAD] = theirs],
                        git_HEAD, git_rebasing)
        ELSE GitOutcome(FALSE, git_heads, git_HEAD, git_rebasing)

\* git branch -d <name>: refused for the branch checked out and for a branch
\* not merged into the current one
git_branch_d(name) ==
    IF name = git_HEAD \/ ~IsPrefix(git_heads[name], git_heads[git_HEAD])
    THEN GitOutcome(FALSE, git_heads, git_HEAD, git_rebasing)
    ELSE GitOutcome(TRUE,
                    [b \in (DOMAIN git_heads) \ {name} |-> git_heads[b]],
                    git_HEAD, git_rebasing)

\* git rebase --abort: fails unless a rebase is in progress, and then puts
\* the rebased branch back
git_rebase_abort ==
    IF git_rebasing = {}
    THEN GitOutcome(FALSE, git_heads, git_HEAD, git_rebasing)
    ELSE GitOutcome(TRUE, git_heads, CHOOSE b \in git_rebasing : TRUE, {})

\* the repository after a git command
GitApply(outcome) ==
    /\ git_heads' = outcome.heads
    /\ git_HEAD' = outcome.HEAD
    /\ git_rebasing' = outcome.rebasing
    /\ UNCHANGED git_dirty

\* rebase_onto_main() is over: it returned a value or raised
GmFinish(cmds, kind, value) ==
    /\ gm_pc' = "idle"
    /\ gm_call' = [gm_call EXCEPT !.cmds = cmds]
    /\ gm_done' = Append(gm_done,
           [branch_name |-> gm_call.branch_name, cmds |-> cmds,
            kind |-> kind, value |-> value, caught |-> gm_call.error,
            heads_before |-> gm_call.heads, dirty_before |-> gm_call.dirty,
            heads_after |-> git_heads', HEAD_after |-> git_HEAD',
            rebasing_after |-> git_rebasing'])

\* one statement of the try block that runs a git command: on success go on
\* to the next statement, on GitCommandError enter the except clause
GmStep(command, outcome, next) ==
    LET cmds == Append(gm_call.cmds, command)
    IN  /\ GitApply(outcome)
        /\ IF outcome.ok
           THEN /\ gm_pc' = next
                /\ gm_call' = [gm_call EXCEPT !.cmds = cmds]
           ELSE /\ gm_pc' = "except"
                /\ gm_call' = [gm_call EXCEPT !.cmds = cmds,
                                   !.error = {GitCommandError(command)}]
        /\ UNCHANGED gm_done

BranchNames == {"main", "feat", "gone"}

\* rebase_onto_main(branch_name) is called
rebase_onto_main_Call ==
    /\ gm_pc = "idle"
    /\ Len(gm_done) < MaxRebases
    /\ \E branch_name \in BranchNames :
          gm_call' = [branch_name |-> branch_name, cmds |-> <<>>,
                      error |-> {}, heads |-> git_heads, dirty |-> git_dirty]
    /\ gm_pc' = "checkout_branch"
    /\ UNCHANGED <<git_heads, git_HEAD, git_dirty, git_rebasing, gm_done>>
    /\ UNCHANGED notGit

\* self.checkout(branch_name)
rebase_onto_main_CheckoutBranch ==
    /\ gm_pc = "checkout_branch"
    /\ IF gm_call.branch_name \notin DOMAIN git_heads
       THEN /\ UNCHANGED <<git_heads, git_HEAD, git_dirty, git_rebasing>>
            /\ GmFinish(gm_call.cmds, "raise", IndexError(gm_call.branch_name))
       ELSE GmStep(<<"checkout", gm_call.branch_name>>,
                   git_checkout(gm_call.branch_name), "rebase")
    /\ UNCHANGED notGit

\* self.repo.git.rebase(main_branch)
rebase_onto_main_Rebase ==
    /\ gm_pc = "rebase"
    /\ GmStep(<<"rebase", default_branch>>, git_rebase(default_branch),
              "checkout_main")
    /\ UNCHANGED notGit

\* self.checkout(main_branch)
rebase_onto_main_CheckoutMain ==
    /\ gm_pc = "checkout_main"
    /\ GmStep(<<"checkout", default_branch>>, git_checkout(default_branch),
              "merge")
    /\ UNCHANGED notGit

\* self.repo.git.merge(branch_name, ff_only=True)
rebase_onto_main_Merge ==
    /\ gm_pc = "merge"
    /\ GmStep(<<"merge --ff-only", gm_call.branch_name>>,
              git_merge_ff_only(gm_call.branch_name), "delete_head")
    /\ UNCHANGED notGit

\* return True with the feature branch left in place
rebase_onto_main_DeleteHead_KeepsBranch ==
    /\ gm_pc = "delete_head"
    /\ UNCHANGED <<git_heads, git_HEAD, git_dirty, git_rebasing>>
    /\ GmFinish(gm_call.cmds, "return", TRUE)
    /\ UNCHANGED notGit

\* self.repo.delete_head(branch_name); return True
rebase_onto_main_DeleteHead ==
    /\ gm_pc = "delete_head"
    /\ LET command == <<"branch -d", gm_call.branch_name>>
           outcome == git_branch_d(gm_call.branch_name)
       IN  IF outcome.ok
           THEN /\ GitApply(outcome)
                /\ GmFinish(Append(gm_call.cmds, command), "return", TRUE)
           ELSE GmStep(command, outcome, "except")
    /\ UNCHANGED notGit

\* except GitCommandError as e: self.repo.git.rebase(abort=True), then
\* raise RuntimeError(f"Rebase failed: {e}"); a GitCommandError raised by the
\* abort leaves the except clause in place of the RuntimeError
rebase_onto_main_Except ==
    /\ gm_pc = "except"
    /\ LET command == <<"rebase --abort">>
           outcome == git_rebase_abort
           e == CHOOSE x \in gm_call.error : TRUE
       IN  /\ GitApply(outcome)
           /\ IF outcome.ok
              THEN GmFinish(Append(gm_call.cmds, command), "raise",
                            Exception("RuntimeError", <<"Rebase failed: ", e>>))
              ELSE GmFinish(Append(gm_call.cmds, command), "raise",
                            GitCommandError(command))
    /\ UNCHANGED notGit

gmIdle ==
    /\ gm_pc = "idle"
    /\ gm_call = [branch_name |-> "", cmds |-> <<>>, error |-> {},
                  heads |-> <<>>, dirty |-> {}]
    /\ gm_done = <<>>

gitIdle ==
    /\ git_heads = [b \in {default_branch} |-> <<>>]
    /\ git_HEAD = default_branch
    /\ git_dirty = {}
    /\ git_rebasing = {}
    /\ gmIdle

\* ------------------------------------------------------ database connection

MaxTransactions == 2

MaxWrites == 2

Rows == {"r1", "r2"}

\* the exceptions a with-block body raises: subclasses of Exception, and
\* BaseException subclasses that are not
BodyExceptions ==
    {Exception("ValueError", "body"), Exception("IntegrityError", "body"),
     Exception("KeyboardInterrupt", "")}

\* isinstance(e, Exception)
IsException(e) == e.type \notin {"KeyboardInterrupt", "SystemExit", "GeneratorExit"}

\* get_connection()
get_connection ==
    IF _connection = {}
    THEN Err(Exception("RuntimeError", "Database not initialized"))
    ELSE Ok(_connection)

\* the with block is left: normally, or with the exception that propagates
TxFinish(ops, kind, value) ==
    /\ tx_pc' = "idle"
    /\ tx_calls' = <<>>
    /\ tx_done' = Append(tx_done,
           [ops |-> ops, kind |-> kind, value |-> value,
            rows_before |-> tx_before',
            rows_after |-> db_rows', pending_after |-> db_pending'])

\* except Exception: conn.rollback(); raise
TxExcept(ops, e) ==
    IF IsException(e)
    THEN /\ db_pending' = {}
         /\ UNCHANGED db_rows
         /\ TxFinish(Append(ops, "rollback"), "raise", e)
    ELSE /\ UNCHANGED <<db_rows, db_pending>>
         /\ TxFinish(ops, "raise", e)

\* with transaction() as conn: conn = get_connection(), then yield conn
transaction_Enter ==
    /\ tx_pc = "idle"
    /\ Len(tx_done) < MaxTransactions
    /\ UNCHANGED <<_connection, db_rows, db_pending>>
    /\ tx_before' = db_rows
    /\ IF get_connection.ok
       THEN /\ tx_pc' = "body"
            /\ tx_calls' = <<>>
            /\ UNCHANGED tx_done
       ELSE TxFinish(<<>>, "raise", get_connection.error)
    /\ UNCHANGED notTx

\* the body of the with block writes a row through conn
body_Execute ==
    /\ tx_pc = "body"
    /\ Len(tx_calls) < MaxWrites
    /\ \E row \in Rows :
          /\ db_pending' = db_pending \cup {row}
          /\ tx_calls' = Append(tx_calls, "execute")
    /\ UNCHANGED <<_connection, db_rows, tx_pc, tx_before, tx_done>>
    /\ UNCHANGED notTx

\* BaseRepository.delete that leaves the commit to the enclosing scope
repository_delete_NoCommit(rows, pending, entity_id) ==
    [rows |-> rows, pending |-> pending \ {entity_id},
     ops |-> <<"execute">>,
     rowcount |-> IF entity_id \in rows \cup pending THEN 1 ELSE 0]

\* BaseRepository.delete on the connection: DELETE ... WHERE id = ?, then
\* self._conn.commit(), which commits everything pending on the connection
repository_delete(rows, pending, entity_id) ==
    [rows |-> (rows \cup pending) \ {entity_id}, pending |-> {},
     ops |-> <<"execute", "commit">>,
     rowcount |-> IF entity_id \in rows \cup pending THEN 1 ELSE 0]

\* the body of the with block calls delete() of a repository built on the
\* connection, for a row written in this scope or not
body_Delete ==
    /\ tx_pc = "body"
    /\ Len(tx_calls) < MaxWrites
    /\ \E entity_id \in Rows :
          LET d == repository_delete(db_rows, db_pending, entity_id)
          IN  /\ db_rows' = d.rows
              /\ db_pending' = d.pending
              /\ tx_calls' = Append(tx_calls, "delete")
    /\ UNCHANGED <<_connection, tx_pc, tx_before, tx_done>>
    /\ UNCHANGED notTx

\* the body completes: conn.commit(), which succeeds or raises
\* sqlite3.OperationalError into the except clause
transaction_Commit ==
    /\ tx_pc = "body"
    /\ UNCHANGED <<_connection, tx_before>>
    /\ \E committed \in BOOLEAN :
          IF committed
          THEN /\ db_rows' = db_rows \cup db_pending
               /\ db_pending' = {}
               /\ TxFinish(Append(tx_calls, "commit"), "return", "None")
          ELSE TxExcept(Append(tx_calls, "commit"),
                        Exception("OperationalError", "database is locked"))
    /\ UNCHANGED notTx

\* the body raises: the exception is thrown into the generator at the yield
transaction_BodyRaises ==
    /\ tx_pc = "body"
    /\ UNCHANGED <<_connection, tx_before>>
    /\ \E e \in BodyExceptions : TxExcept(tx_calls, e)
    /\ UNCHANGED notTx

txIdle ==
    /\ _connection = {}
    /\ db_rows = {}
    /\ db_pending = {}
    /\ tx_pc = "idle"
    /\ tx_calls = <<>>
    /\ tx_before = {}
    /\ tx_done = <<>>

\* --------------------------------------------------------- GitHub auth CLI

MaxCommands == 2

\* str.strip()
RECURSIVE PyStrip(_)
PyStrip(s) ==
    IF s = <<>> THEN s
    ELSE IF s[1] = " " THEN PyStrip(Tail(s))
    ELSE IF s[Len(s)] = " " THEN PyStrip(SubSeq(s, 1, Len(s) - 1))
    ELSE s

\* the tokens of the model: one of a recognised format, one not
Tokens == {<<"g", "h", "p", "_", "1">>, <<"x">>}

\* what the user types at typer.prompt: a token, a token between blanks, or
\* blanks only
Pasted ==
    Tokens \cup {<<" ">> \o t \o <<" ">> : t \in Tokens} \cup {<<" ">>}

\* the --token option of auth login: None ({}) or a token
TokenOptions == {{}} \cup {{t} : t \in Tokens}

\* validate_token(token): GET /user answers 200 for a token GitHub accepts and
\* 401 for one it does not; any request can also meet a 5xx answer
\* (HTTPStatusError from raise_for_status) or no answer (httpx.ConnectError)
validate_token(token) ==
    {IF token \in gh_valid THEN Ok("user_info")
     ELSE Err(Exception("HTTPStatusError", 401)),
     Err(Exception("HTTPStatusError", 500)),
     Err(Exception("ConnectError", ""))}

\* get_stored_token(): the keyring's token, None when the keyring fails
get_stored_token == {keyring, {}}

\* the command ends with an exit status: typer.Exit(code), 0 on return, 1 when
\* an exception leaves the command
AuExit(log, status) ==
    /\ au_pc' = "idle"
    /\ au_call' = [au_call EXCEPT !.log = log]
    /\ au_done' = Append(au_done,
           [cmd |-> au_call.cmd, option |-> au_call.option,
            token |-> au_call.token, log |-> log, status |-> status,
            stored_before |-> au_call.stored, stored_after |-> keyring'])

NoCommand ==
    [cmd |-> "", option |-> {}, token |-> {}, log |-> <<>>, stored |-> {}]

\* auth login [--token T], up to the check of an existing token
auth_login_Call ==
    /\ au_pc = "idle"
    /\ Len(au_done) < MaxCommands
    /\ UNCHANGED <<keyring, gh_valid, au_done>>
    /\ \E option \in TokenOptions, existing_token \in get_stored_token :
          /\ au_call' = [cmd |-> "login", option |-> option, token |-> {},
                         log |-> <<>>, stored |-> keyring]
          /\ au_pc' = IF existing_token # {} THEN "login_existing"
                      ELSE "login_token"
    /\ UNCHANGED notAu

\* auth login: validate_token(existing_token) and "Login with a different
\* account?"
auth_login_Existing ==
    /\ au_pc = "login_existing"
    /\ UNCHANGED <<keyring, gh_valid>>
    /\ LET existing_token == CHOOSE t \in keyring : TRUE
       IN  \E outcome \in validate_token(existing_token), confirm \in BOOLEAN :
              LET log == Append(au_call.log,
                             [op |-> "validate", token |-> existing_token,
                              ok |-> outcome.ok, of |-> "existing"])
              IN  IF outcome.ok /\ ~confirm
                  THEN AuExit(log, 0)
                  ELSE IF ~outcome.ok /\ outcome.error.type # "HTTPStatusError"
                  THEN AuExit(log, 1)
                  ELSE /\ au_pc' = "login_token"
                       /\ au_call' = [au_call EXCEPT !.log = log]
                       /\ UNCHANGED au_done
    /\ UNCHANGED notAu

\* auth login: the --token option if given, else the token pasted at the
\* prompt, stripped
auth_login_Token ==
    /\ au_pc = "login_token"
    /\ UNCHANGED <<keyring, gh_valid, au_done>>
    /\ au_pc' = "validate_and_store"
    /\ IF au_call.option # {}
       THEN au_call' = [au_call EXCEPT !.token = au_call.option]
       ELSE \E new_token \in Pasted :
                au_call' = [au_call EXCEPT !.token = {PyStrip(new_token)}]
    /\ UNCHANGED notAu

\* auth refresh, up to the call of _validate_and_store_token
auth_refresh ==
    /\ au_pc = "idle"
    /\ Len(au_done) < MaxCommands
    /\ UNCHANGED <<keyring, gh_valid>>
    /\ \E existing_token \in get_stored_token, token \in Pasted :
          IF existing_token = {}
          THEN /\ au_call' = [cmd |-> "refresh", option |-> {}, token |-> {},
                              log |-> <<>>, stored |-> keyring]
               /\ au_pc' = "idle"
               /\ au_done' = Append(au_done,
                      [cmd |-> "refresh", option |-> {}, token |-> {},
                       log |-> <<>>, status |-> 1, stored_before |-> keyring,
                       stored_after |-> keyring])
          ELSE /\ au_call' = [cmd |-> "refresh", option |-> {},
                              token |-> {PyStrip(token)}, log |-> <<>>,
                              stored |-> keyring]
               /\ au_pc' = "validate_and_store"
               /\ UNCHANGED au_done
    /\ UNCHANGED notAu

\* store_token(token) before validate_token(token)
_validate_and_store_token_StoreFirst ==
    /\ au_pc = "validate_and_store"
    /\ UNCHANGED gh_valid
    /\ LET token == CHOOSE t \in au_call.token : TRUE
       IN  IF token = <<>>
           THEN /\ UNCHANGED keyring
                /\ AuExit(au_call.log, 1)
           ELSE \E outcome \in validate_token(token) :
                   LET stored == Append(au_call.log,
                                     [op |-> "store", token |-> token,
                                      ok |-> TRUE, of |-> "supplied"])
                       log == Append(stored,
                                  [op |-> "validate", token |-> token,
                                   ok |-> outcome.ok, of |-> "supplied"])
                   IN  /\ keyring' = {token}
                       /\ AuExit(log, IF outcome.ok THEN 0 ELSE 1)
    /\ UNCHANGED notAu

\* _validate_and_store_token(token)
_validate_and_store_token ==
    /\ au_pc = "validate_and_store"
    /\ UNCHANGED gh_valid
    /\ LET token == CHOOSE t \in au_call.token : TRUE
       IN  IF token = <<>>
           THEN /\ UNCHANGED keyring
                /\ AuExit(au_call.log, 1)
           ELSE \E outcome \in validate_token(token), keyring_up \in BOOLEAN :
                   LET log == Append(au_call.log,
                                  [op |-> "validate", token |-> token,
                                   ok |-> outcome.ok, of |-> "supplied"])
                   IN  IF ~outcome.ok
                       THEN /\ UNCHANGED keyring
                            /\ AuExit(log, 1)
                       ELSE IF ~keyring_up
                       THEN /\ UNCHANGED keyring
                            /\ AuExit(log, 1)
                       ELSE /\ keyring' = {token}
                            /\ AuExit(Append(log,
                                   [op |-> "store", token |-> token,
                                    ok |-> TRUE, of |-> "supplied"]), 0)
    /\ UNCHANGED notAu

\* no auth command has run
auRest ==
    /\ gh_valid = {}
    /\ au_pc = "idle"
    /\ au_call = NoCommand
    /\ au_done = <<>>

auIdle == keyring = {} /\ auRest

\* ---------------------------------------------------------------- repo put

MaxPuts == 2

Branches == {"main", "dev"}

Paths == {"a.md", "b.md"}

\* --content: None ({}), the empty string, or a text
ContentOptions == {{}, {""}, {"y"}}

\* --input: None ({}) or a local file, whose text is "z"
InputOptions == {{}, {"notes.md"}}

\* base64.b64encode(file_content.encode()).decode()
b64encode(text) == <<"base64", text>>

\* the sha GitHub gives the blob of a file
BlobSha(encoded) == <<"sha", encoded>>

\* payload with the sha left out whatever the lookup found
PutPayload_NoSha(message, encoded, branch, existing_sha) ==
    [message |-> message, content |-> encoded, branch |-> branch]

\* payload: dict = {"message": ..., "content": ..., "branch": ...};
\* if existing_sha: payload["sha"] = existing_sha
PutPayload(message, encoded, branch, existing_sha) ==
    IF existing_sha # {}
    THEN [message |-> message, content |-> encoded, branch |-> branch,
          sha |-> CHOOSE x \in existing_sha : TRUE]
    ELSE [message |-> message, content |-> encoded, branch |-> branch]

\* GET /repos/{repo}/contents/{path}?ref={branch}: 200 with the file's sha,
\* 404 when nothing is there, or a server error
gh_get(branch, path) ==
    {IF gh_contents[<<branch, path>>] # {}
     THEN [status_code |-> 200,
           json |-> [sha |-> CHOOSE x \in gh_contents[<<branch, path>>] : TRUE]]
     ELSE [status_code |-> 404, json |-> [message |-> "Not Found"]],
     [status_code |-> 500, json |-> [message |-> "Server Error"]]}

\* PUT /repos/{repo}/contents/{path}: 201 for a new file sent without sha, 200
\* for an existing file sent with its sha, 409 for a stale sha, 422 for a
\* missing or unexpected sha
gh_put_status(path, payload) ==
    LET there == gh_contents[<<payload.branch, path>>]
        has_sha == "sha" \in DOMAIN payload
    IN  IF there = {} THEN (IF has_sha THEN 422 ELSE 201)
        ELSE IF ~has_sha THEN 422
        ELSE IF {payload.sha} = there THEN 200
        ELSE 409

\* the command is over: what it printed last and its exit status
RpExit(requests, report, status) ==
    /\ rp_pc' = "idle"
    /\ rp_call' = [rp_call EXCEPT !.requests = requests]
    /\ rp_done' = Append(rp_done,
           [branch |-> rp_call.branch, path |-> rp_call.path,
            requests |-> requests, report |-> report, status |-> status,
            there_before |-> rp_call.there,
            contents_after |-> gh_contents'])

NoPut ==
    [branch |-> "", path |-> "", message |-> "", encoded |-> <<>>,
     existing_sha |-> {}, requests |-> <<>>, there |-> {}]

\* repo put, up to the client: the content from --input or --content, then
\* get_authenticated_client()
repo_put_file_Call ==
    /\ rp_pc = "idle"
    /\ Len(rp_done) < MaxPuts
    /\ UNCHANGED gh_contents
    /\ \E path \in Paths, branch \in Branches, content \in ContentOptions,
          input_file \in InputOptions, token \in get_stored_token :
          LET file_content == IF input_file # {} THEN {"z"}
                              ELSE IF content # {} /\ content # {""} THEN content
                              ELSE {}
              call == [branch |-> branch, path |-> path, message |-> "m",
                       encoded |-> <<>>, existing_sha |-> {},
                       requests |-> <<>>,
                       there |-> gh_contents[<<branch, path>>]]
          IN  IF file_content = {} \/ token = {}
              THEN /\ rp_call' = call
                   /\ rp_pc' = "idle"
                   /\ rp_done' = Append(rp_done,
                          [branch |-> branch, path |-> path,
                           requests |-> <<>>,
                           report |-> IF file_content = {}
                                      THEN "Provide --content or --input"
                                      ELSE "Not authenticated",
                           status |-> 1, there_before |-> call.there,
                           contents_after |-> gh_contents])
              ELSE /\ rp_call' = [call EXCEPT !.encoded =
                          b64encode(CHOOSE x \in file_content : TRUE)]
                   /\ rp_pc' = "lookup"
                   /\ UNCHANGED rp_done
    /\ UNCHANGED notRp

\* resp = client.get(...); if resp.status_code == 200: existing_sha = ...
repo_put_file_Lookup ==
    /\ rp_pc = "lookup"
    /\ UNCHANGED <<gh_contents, rp_done>>
    /\ \E resp \in gh_get(rp_call.branch, rp_call.path) :
          rp_call' = [rp_call EXCEPT
              !.existing_sha = IF resp.status_code = 200 THEN {resp.json.sha}
                               ELSE {},
              !.requests = Append(@, [method |-> "GET",
                                      status_code |-> resp.status_code])]
    /\ rp_pc' = "put"
    /\ UNCHANGED notRp

\* response = client.put(..., json=payload); response.raise_for_status();
\* then the report
repo_put_file_Put ==
    /\ rp_pc = "put"
    /\ LET payload == PutPayload(rp_call.message, rp_call.encoded,
                                 rp_call.branch, rp_call.existing_sha)
       IN  \E status_code \in {gh_put_status(rp_call.path, payload), 500} :
              LET requests == Append(rp_call.requests,
                                  [method |-> "PUT", json |-> payload,
                                   status_code |-> status_code])
              IN  IF status_code \in {200, 201}
                  THEN /\ gh_contents' = [gh_contents EXCEPT
                              ![<<rp_call.branch, rp_call.path>>] =
                                  {BlobSha(rp_call.encoded)}]
                       /\ RpExit(requests,
                                 IF rp_call.existing_sha # {} THEN "Updated"
                                 ELSE "Created", 0)
                  ELSE /\ UNCHANGED gh_contents
                       /\ RpExit(requests, "HTTPStatusError", 1)
    /\ UNCHANGED notRp

rpIdle ==
    /\ gh_contents = [k \in Branches \X Paths |-> {}]
    /\ rp_pc = "idle"
    /\ rp_call = NoPut
    /\ rp_done = <<>>

\* ------------------------------------------------------ legacy scraper CLI

MaxPrompts == 3

\* str.lower() on the letters the inputs use
PyLower(s) == [k \in 1..Len(s) |-> IF s[k] = "Q" THEN "q" ELSE s[k]]

Digits == <<"0", "1", "2", "3", "4", "5", "6", "7", "8", "9">>

DigitValue(c) == (CHOOSE k \in 1..Len(Digits) : Digits[k] = c) - 1

IsDigit(c) == \E k \in 1..Len(Digits) : Digits[k] = c

RECURSIVE DigitsValue(_)
DigitsValue(s) ==
    IF s = <<>> THEN 0
    ELSE DigitsValue(SubSeq(s, 1, Len(s) - 1)) * Len(Digits)
             + DigitValue(s[Len(s)])

\* int(s): blanks around, an optional sign, then digits; {} for ValueError
PyInt(s) ==
    LET t == PyStrip(s)
        signed == t # <<>> /\ t[1] \in {"+", "-"}
        digits == IF signed THEN Tail(t) ELSE t
    IN  IF digits = <<>> \/ \E k \in 1..Len(digits) : ~IsDigit(digits[k])
        THEN {}
        ELSE {IF signed /\ t[1] = "-" THEN 0 - DigitsValue(digits)
              ELSE DigitsValue(digits)}

\* the range test with its lower bound left out
InRange_NoLowerBound(choice_index, n) == choice_index < n

\* 0 <= choice_index < len(papers)
InRange(choice_index, n) == 0 <= choice_index /\ choice_index < n

\* papers[choice_index], with Python's indexing from the end for a negative
\* index
PyItem(list, index) ==
    IF index >= 0 THEN list[index + 1] ELSE list[Len(list) + index + 1]

\* the Paper.md folders under each configured directory, with their links
PaperFolders(directory_key) ==
    IF directory_key = "papers"
    THEN << [folder |-> "p1", url |-> "https://a/p1.pdf"],
            [folder |-> "p2", url |-> "NO LINK FOUND"] >>
    ELSE IF directory_key = "concepts"
    THEN << [folder |-> "c1", url |-> "https://a/c1.pdf"] >>
    ELSE <<>>

\* util.get_paper_urls(directory_key), with the download folder as it is
get_paper_urls(directory_key, downloaded) ==
    LET found == PaperFolders(directory_key)
    IN  [k \in 1..Len(found) |->
            [folder |-> found[k].folder, url |-> found[k].url,
             downloaded |-> IF found[k].folder \in downloaded THEN "Yes"
                            ELSE "No"]]

\* the papers list_papers(directory) lists: directory.lower() == 'all' takes
\* three keys in a fixed order
ScanPapers(directory, downloaded) ==
    IF directory \in {"all", "ALL"}
    THEN get_paper_urls("papers", downloaded)
             \o get_paper_urls("concepts", downloaded)
             \o get_paper_urls("algorithms", downloaded)
    ELSE get_paper_urls(directory, downloaded)

Directories == {"papers", "concepts", "algorithms", "all", "ALL", "inbox"}

Choices ==
    {<<"q">>, <<"Q">>, <<"0">>, <<"1">>, <<"2">>, <<"3">>, <<"4">>,
     <<"-", "1">>, <<" ", "2">>, <<"x">>, <<>>, <<"1", ".", "0">>}

\* list_papers(directory) is run: scan, "No papers found." or the table and
\* the first prompt
list_papers_Call ==
    /\ lp_pc = "idle"
    /\ UNCHANGED lp_downloaded
    /\ \E directory \in Directories :
          LET papers == ScanPapers(directory, lp_downloaded)
          IN  /\ lp_directory' = directory
              /\ IF papers = <<>>
                 THEN /\ lp_pc' = "ended"
                      /\ lp_frames' = <<>>
                      /\ lp_log' = <<[ev |-> "none found"]>>
                 ELSE /\ lp_pc' = "prompt"
                      /\ lp_frames' = <<papers>>
                      /\ lp_log' = <<[ev |-> "render", papers |-> papers]>>
    /\ UNCHANGED notLp

\* util.download_paper(url, folder_name): refused without a link, else the
\* file is written or the GET fails
download_paper(url, folder_name) ==
    IF url = "NO LINK FOUND"
    THEN {[ok |-> FALSE, downloaded |-> lp_downloaded]}
    ELSE {[ok |-> TRUE, downloaded |-> lp_downloaded \cup {folder_name}],
          [ok |-> FALSE, downloaded |-> lp_downloaded]}

\* "Refresh the table": list_papers(directory) called from inside the loop; it
\* scans and renders again and runs a prompt loop of its own, and only when
\* it returns does the calling loop reach its break
list_papers_Refresh(log) ==
    LET papers == ScanPapers(lp_directory, lp_downloaded')
    IN  IF papers = <<>>
        THEN /\ lp_pc' = "ended"
             /\ lp_frames' = <<>>
             /\ lp_log' = Append(log, [ev |-> "none found"])
        ELSE /\ lp_pc' = "prompt"
             /\ lp_frames' = Append(lp_frames, papers)
             /\ lp_log' = Append(log, [ev |-> "render", papers |-> papers])

\* one turn of the while True loop of the innermost list_papers() call
list_papers_Prompt ==
    /\ lp_pc = "prompt"
    /\ Cardinality({k \in 1..Len(lp_log) : lp_log[k].ev = "prompt"})
           < MaxPrompts
    /\ UNCHANGED lp_directory
    /\ \E choice \in Choices :
          LET papers == lp_frames[Len(lp_frames)]
              asked == Append(lp_log, [ev |-> "prompt", choice |-> choice,
                                       papers |-> papers])
              n == PyInt(choice)
              choice_index == (CHOOSE x \in n : TRUE) - 1
          IN  IF PyLower(choice) = <<"q">>
              THEN /\ lp_pc' = "ended"
                   /\ lp_frames' = <<>>
                   /\ lp_log' = asked
                   /\ UNCHANGED lp_downloaded
              ELSE IF n = {} \/ ~InRange(choice_index, Len(papers))
              THEN /\ lp_log' = Append(asked, [ev |-> "invalid"])
                   /\ UNCHANGED <<lp_pc, lp_frames, lp_downloaded>>
              ELSE IF PyItem(papers, choice_index).downloaded = "Yes"
              THEN /\ lp_log' = Append(asked, [ev |-> "already downloaded"])
                   /\ UNCHANGED <<lp_pc, lp_frames, lp_downloaded>>
              ELSE LET paper_to_download == PyItem(papers, choice_index)
                   IN  \E result \in download_paper(paper_to_download.url,
                                        paper_to_download.folder) :
                          /\ lp_downloaded' = result.downloaded
                          /\ list_papers_Refresh(Append(asked,
                                 [ev |-> "download",
                                  folder |-> paper_to_download.folder,
                                  ok |-> result.ok]))
    /\ UNCHANGED notLp

lpIdle ==
    /\ lp_downloaded = {}
    /\ lp_pc = "idle"
    /\ lp_directory = ""
    /\ lp_frames = <<>>
    /\ lp_log = <<>>

\* ------------------------------------------------------- stream(): parsing

MaxLines == 3

\* JSON values as json.loads returns them
JNull == [t |-> "null"]
JStr(s) == [t |-> "str", v |-> s]
JArr(items) == [t |-> "list", v |-> items]
JObj(fields) == [t |-> "dict", v |-> fields]

\* the outcome of an expression: a value or the exception it raises
Val(v) == [raised |-> "", v |-> v]
Raise(type) == [raised |-> type, v |-> JNull]

\* x[key] for a string key
SubscriptKey(x, key) ==
    IF x.t = "dict"
    THEN (IF key \in DOMAIN x.v THEN Val(x.v[key]) ELSE Raise("KeyError"))
    ELSE Raise("TypeError")

\* x[0]
SubscriptZero(x) ==
    IF x.t = "list"
    THEN (IF Len(x.v) > 0 THEN Val(x.v[1]) ELSE Raise("IndexError"))
    ELSE IF x.t = "str"
    THEN (IF Len(x.v) > 0 THEN Val(JStr(<<x.v[1]>>)) ELSE Raise("IndexError"))
    ELSE IF x.t = "dict" THEN Raise("KeyError")
    ELSE Raise("TypeError")

\* x.get(key, default)
DictGet(x, key, default) ==
    IF x.t = "dict"
    THEN Val(IF key \in DOMAIN x.v THEN x.v[key] ELSE default)
    ELSE Raise("AttributeError")

\* bool(x)
Truthy(x) ==
    IF x.t = "null" THEN FALSE
    ELSE IF x.t \in {"str", "list"} THEN Len(x.v) > 0
    ELSE DOMAIN x.v # {}

NoFields == [k \in {} |-> JNull]

Field(key, value) == [k \in {key} |-> value]

\* a chat.completion.chunk whose first choice carries the delta
Chunk(delta) == JObj(Field("choices", JArr(<<JObj(Field("delta", delta))>>)))

\* the text after "data: ": [DONE], text json.loads rejects, or JSON text,
\* given by the value json.loads returns for it
Done == [done |-> TRUE, malformed |-> FALSE, json |-> JNull]
Malformed == [done |-> FALSE, malformed |-> TRUE, json |-> JNull]
JsonText(value) == [done |-> FALSE, malformed |-> FALSE, json |-> value]

\* json.loads(data)
json_loads(data) ==
    IF data.done \/ data.malformed THEN Raise("JSONDecodeError")
    ELSE Val(data.json)

DataTexts ==
    {Done, Malformed,
     JsonText(Chunk(JObj(Field("content", JStr(<<"H", "i">>))))),
     JsonText(Chunk(JObj(Field("content", JStr(<<"!">>))))),
     JsonText(Chunk(JObj(Field("content", JStr(<<>>))))),
     JsonText(Chunk(JObj(Field("role", JStr(<<"a">>))))),
     JsonText(Chunk(JNull)),
     JsonText(JObj(NoFields)),
     JsonText(JObj(Field("choices", JArr(<<>>)))),
     JsonText(JNull)}

\* a line of the answer: its first characters and the text after them
SseLine(prefix, data) == [prefix |-> prefix, data |-> data]

SseLines ==
    {SseLine("data: ", d) : d \in DataTexts}
        \cup {SseLine(": ", Malformed), SseLine("", Malformed)}

\* the try block of stream() for one data text: the content to yield, nothing
\* to yield, or the exception that is not caught
ParseChunk(data) ==
    LET chunk == json_loads(data)
        choices == SubscriptKey(chunk.v, "choices")
        choice == SubscriptZero(choices.v)
        delta == DictGet(choice.v, "delta", JObj(NoFields))
        content == DictGet(delta.v, "content", JStr(<<>>))
        raised == IF chunk.raised # "" THEN chunk.raised
                  ELSE IF choices.raised # "" THEN choices.raised
                  ELSE IF choice.raised # "" THEN choice.raised
                  ELSE IF delta.raised # "" THEN delta.raised
                  ELSE content.raised
    IN  IF raised \in {"JSONDecodeError", "KeyError", "IndexError"}
        THEN [yield |-> <<>>, raised |-> {}]
        ELSE IF raised # "" THEN [yield |-> <<>>, raised |-> {raised}]
        ELSE IF Truthy(content.v) THEN [yield |-> <<content.v>>, raised |-> {}]
        ELSE [yield |-> <<>>, raised |-> {}]

\* one turn of `async for line in response.aiter_lines()`
stream_Line ==
    /\ sse_pc = "reading"
    /\ sse_pos < Len(sse_lines)
    /\ UNCHANGED sse_lines
    /\ sse_pos' = sse_pos + 1
    /\ LET line == sse_lines[sse_pos + 1]
       IN  IF line.prefix # "data: "
           THEN UNCHANGED <<sse_pc, sse_yielded, sse_raised>>
           ELSE IF line.data = Done
           THEN /\ sse_pc' = "done"
                /\ UNCHANGED <<sse_yielded, sse_raised>>
           ELSE LET parsed == ParseChunk(line.data)
                IN  /\ sse_yielded' = sse_yielded \o parsed.yield
                    /\ sse_raised' = parsed.raised
                    /\ sse_pc' = IF parsed.raised # {} THEN "raised"
                                 ELSE "reading"
    /\ UNCHANGED notSse

\* aiter_lines() is exhausted: the generator ends
stream_End ==
    /\ sse_pc = "reading"
    /\ sse_pos = Len(sse_lines)
    /\ sse_pc' = "done"
    /\ UNCHANGED <<sse_lines, sse_pos, sse_yielded, sse_raised>>
    /\ UNCHANGED notSse

sseIdle ==
    /\ sse_lines = <<>>
    /\ sse_pos = 0
    /\ sse_pc = "done"
    /\ sse_yielded = <<>>
    /\ sse_raised = {}

\* -------------------------------------------------------------- Result type

MaxResults == 3

Values == {1, 2}

Errors == {"ValueError", "IOError"}

Results == {Ok(v) : v \in Values} \cup {Err(e) : e \in Errors}

\* what a method returned and the arguments with which it called fn
Returned(result, fn_calls) == [result |-> result, fn_calls |-> fn_calls]

\* Ok.map / Err.map
Result_map(r, fn) ==
    IF r.ok THEN Returned(Ok(fn[r.value]), <<r.value>>)
    ELSE Returned(Err(r.error), <<>>)

\* and_then that calls fn and keeps the Ok it was called on
Result_and_then_Keeping(r, fn) ==
    IF r.ok THEN Returned(Ok(r.value), <<r.value>>)
    ELSE Returned(Err(r.error), <<>>)

\* Ok.and_then / Err.and_then
Result_and_then(r, fn) ==
    IF r.ok THEN Returned(fn[r.value], <<r.value>>)
    ELSE Returned(Err(r.error), <<>>)

\* collect_results that goes on past an Err and returns the last one
RECURSIVE collect_results_LastErr(_)
collect_results_LastErr(results) ==
    IF results = <<>> THEN Ok(<<>>)
    ELSE LET result == results[Len(results)]
             before == collect_results_LastErr(SubSeq(results, 1, Len(results) - 1))
         IN  IF ~result.ok THEN Err(result.error)
             ELSE IF ~before.ok THEN before
             ELSE Ok(Append(before.value, result.value))

\* collect_results(results): the loop taken from the front of the list
RECURSIVE collect_results(_)
collect_results(results) ==
    IF results = <<>> THEN Ok(<<>>)
    ELSE IF ~Head(results).ok THEN Err(Head(results).error)
    ELSE LET rest == collect_results(Tail(results))
         IN  IF rest.ok THEN Ok(<<Head(results).value>> \o rest.value)
             ELSE rest

\* rs_r.map(rs_fn)
result_map ==
    /\ rs_out' = <<[op |-> "map", out |-> Result_map(rs_r, rs_fn)]>>
    /\ UNCHANGED <<rs_r, rs_fn, rs_chain, rs_results>>
    /\ UNCHANGED notRs

\* rs_r.and_then(rs_chain)
result_and_then ==
    /\ rs_out' = <<[op |-> "and_then",
                   out |-> Result_and_then(rs_r, rs_chain)]>>
    /\ UNCHANGED <<rs_r, rs_fn, rs_chain, rs_results>>
    /\ UNCHANGED notRs

\* collect_results(rs_results)
result_collect ==
    /\ rs_out' = <<[op |-> "collect",
                   out |-> Returned(collect_results(rs_results), <<>>)]>>
    /\ UNCHANGED <<rs_r, rs_fn, rs_chain, rs_results>>
    /\ UNCHANGED notRs

rsIdle ==
    /\ rs_r = Ok(1)
    /\ rs_fn = [v \in Values |-> v]
    /\ rs_chain = [v \in Values |-> Ok(v)]
    /\ rs_results = <<>>
    /\ rs_out = <<>>

\* ------------------------------------------------------------ get_paginated

MaxRows == 25
MaxPage == 4
MaxPageSize == 10

Kinds == {"paper", "note"}

\* filters: none, or {"kind": k}
FilterOptions == {{}} \cup {{k} : k \in Kinds}

Min(a, b) == IF a <= b THEN a ELSE b
Max(a, b) == IF a >= b THEN a ELSE b

\* the rows SELECT ... [WHERE kind = ?] finds, in rowid order
Matching(table, filters) ==
    LET of(k) == [i \in 1..table[k] |-> <<k, i>>]
    IN  IF filters = {} THEN of("paper") \o of("note")
        ELSE of(CHOOSE k \in filters : TRUE)

\* BaseRepository.count
count(table, filters) == Len(Matching(table, filters))

\* SQLite's LIMIT ? OFFSET ?: a negative offset counts as 0
LimitOffset(rows, limit, offset) ==
    SubSeq(rows, Max(offset, 0) + 1, Min(Max(offset, 0) + limit, Len(rows)))

\* total_pages rounded down
total_pages_Floor(total, page_size) == total \div page_size

\* total_pages=(total + page_size - 1) // page_size
total_pages(total, page_size) == (total + page_size - 1) \div page_size

PaginatedResult(items, total, page, page_size, pages) ==
    [items |-> items, total |-> total, page |-> page, page_size |-> page_size,
     total_pages |-> pages]

has_next(result) == result.page < result.total_pages
has_previous(result) == result.page > 1

get_paginated ==
    /\ pg_result = {}
    /\ LET page == pg_args.page
           page_size == pg_args.page_size
           offset == (page - 1) * page_size
           total == count(pg_table, pg_args.filters)
           items == LimitOffset(Matching(pg_table, pg_args.filters), page_size, offset)
       IN  pg_result' = {PaginatedResult(items, total, page, page_size,
                                         total_pages(total, page_size))}
    /\ UNCHANGED <<pg_table, pg_args>>
    /\ UNCHANGED notPg

pgIdle ==
    /\ pg_table = [k \in Kinds |-> 0]
    /\ pg_args = [page |-> 1, page_size |-> 1, filters |-> {}]
    /\ pg_result = {}

\* ------------------------------------- extractor and client run together

\* the extract() calls that went as far as client.complete()
WithCompletion(done) == SelectSeq(done, LAMBDA x : x.llm_calls # <<>>)

\* a slip: complete() is called without a temperature, so the client's
\* configured temperature applies
extract_Complete_NoTemperature ==
    /\ xt_pc = "awaiting"
    /\ cl_pc = "idle"
    /\ Len(calls) = Len(WithCompletion(xt_done))
    /\ Len(calls) < MaxCalls
    /\ LET messages == xt_llm_calls[1].messages
           temperature == cl_config.temperature
       IN  /\ cl_call' = [messages |-> messages, temperature |-> temperature,
                          cache_key |-> _compute_cache_key(messages, temperature),
                          response |-> NoResponse,
                          first_post |-> Len(posts) + 1,
                          first_cache_call |-> Len(cache_log) + 1,
                          rows_before |-> llm_cache]
           /\ cl_pc' = IF cl_has_cache /\ temperature = 0
                       THEN "cache_get" ELSE "attempt"
    /\ attempt' = 0
    /\ last_error' = NoError
    /\ sleeps' = <<>>
    /\ UNCHANGED <<cl_config, cl_has_cache, cache_default_ttl, llm_cache, now,
                   posts, calls, cache_log>>
    /\ UNCHANGED <<streams, ckVars, busVars, exVars, auxVars>>

\* extract(): await self._client.complete(messages=messages, temperature=0.1),
\* from the entry of complete() to the cache lookup or the first attempt
extract_Complete ==
    /\ xt_pc = "awaiting"
    /\ cl_pc = "idle"
    /\ Len(calls) = Len(WithCompletion(xt_done))
    /\ Len(calls) < MaxCalls
    /\ LET messages == xt_llm_calls[1].messages
           temperature == xt_llm_calls[1].temperature
       IN  /\ cl_call' = [messages |-> messages, temperature |-> temperature,
                          cache_key |-> _compute_cache_key(messages, temperature),
                          response |-> NoResponse,
                          first_post |-> Len(posts) + 1,
                          first_cache_call |-> Len(cache_log) + 1,
                          rows_before |-> llm_cache]
           /\ cl_pc' = IF cl_has_cache /\ temperature = 0
                       THEN "cache_get" ELSE "attempt"
    /\ attempt' = 0
    /\ last_error' = NoError
    /\ sleeps' = <<>>
    /\ UNCHANGED <<cl_config, cl_has_cache, cache_default_ttl, llm_cache, now,
                   posts, calls, cache_log>>
    /\ UNCHANGED <<streams, ckVars, busVars, exVars, auxVars>>

\* extract(), from the end of its complete() call to its return
extract_Answered ==
    /\ xt_pc = "awaiting"
    /\ cl_pc = "idle"
    /\ Len(calls) = Len(WithCompletion(xt_done)) + 1
    /\ UNCHANGED <<xt_call, xt_llm_calls>>
    /\ LET call == calls[Len(calls)]
           made == <<[messages |-> call.messages, temperature |-> call.temperature,
                      posts |-> Len(call.answers), cache_calls |-> call.cache_calls]>>
       IN  \E outcome \in ExtractOutcomes :
              /\ (outcome.kind = "complete_raises") = (call.kind = "raise")
              /\ outcome.kind = "complete_raises" =>
                     (outcome.error.type = "RuntimeError")
                         = (call.error.kind = "exception")
              /\ IF outcome.kind # "response"
                 THEN ExtractDone(extract_Except(outcome.error).result, made,
                                  extract_Except(outcome.error).raised, outcome)
                 ELSE ExtractDone(ExtractionResult(TRUE, outcome.data,
                                      _calculate_confidence(outcome.data),
                                      call.response.content, <<>>),
                                  made, {}, outcome)
    /\ UNCHANGED notXt

\* ------------------------------------------ pages from an extraction

\* at most this many suggested pages in one ExtractedPaper; a behaviour
\* holds one create_pages_from_extraction call
MaxSuggestions == 3

\* extracted.suggested_pages as _generate_page_suggestions builds them: the
\* positions count from 0, the suggested content may be empty
SuggestedPages ==
    UNION { [1..n -> {"", "body"}] : n \in 0..MaxSuggestions }

PageData(contents, i) ==
    [title |-> <<"Page", i>>, category |-> "section", position |-> i - 1,
     suggested_content |-> contents[i]]

\* what self._page_service.create(...) may do: return the created page,
\* return nothing, or raise; self._note_service.create(...) returns or raises
PageOutcomes == {"page", "none", "raises"}
NoteOutcomes == {"returns", "raises"}

\* the page_id the page service gives its next page
NextPageId(log) ==
    Cardinality({n \in 1..Len(log) : log[n].op = "page" /\ log[n].outcome = "page"}) + 1

\* `if auto_create_notes:` alone (a slip: the content is not looked at, and
\* neither is the flag)
note_Wanted_Always(auto_create_notes, page_data) == TRUE

\* if auto_create_notes and page_data.get("suggested_content"):
note_Wanted(auto_create_notes, page_data) ==
    auto_create_notes /\ page_data.suggested_content # ""

CreateDone(result, log) ==
    [result |-> result, log |-> log,
     suggested_pages |-> cp_call.suggested_pages,
     auto_create_notes |-> cp_call.auto_create_notes]

\* await service.create_pages_from_extraction(paper_id, extracted, auto)
create_pages_Call ==
    /\ cp_pc = "idle"
    /\ \E contents \in SuggestedPages, auto \in BOOLEAN :
          cp_call' = [suggested_pages |->
                          [i \in 1..Len(contents) |-> PageData(contents, i)],
                      auto_create_notes |-> auto,
                      next |-> 1, created_pages |-> <<>>, log |-> <<>>]
    /\ cp_pc' = "looping"
    /\ UNCHANGED cp_done
    /\ UNCHANGED notCp

\* one pass of the loop up to the note: page = self._page_service.create({...})
create_pages_Page ==
    /\ cp_pc = "looping"
    /\ cp_call.next <= Len(cp_call.suggested_pages)
    /\ \E outcome \in PageOutcomes :
          LET page_data == cp_call.suggested_pages[cp_call.next]
              page_id == IF outcome = "page" THEN NextPageId(cp_call.log) ELSE 0
              entry == [op |-> "page", outcome |-> outcome, page_id |-> page_id,
                        data |-> [paper_id |-> "paper",
                                  title |-> page_data.title,
                                  category |-> page_data.category,
                                  position |-> page_data.position]]
              log == Append(cp_call.log, entry)
          IN  CASE outcome = "raises" ->
                     /\ cp_call' = [cp_call EXCEPT !.log = log]
                     /\ cp_done' = Append(cp_done,
                            CreateDone(Err(Exception("ValueError", "page")), log))
                     /\ cp_pc' = "returned"
                [] outcome = "none" ->
                     /\ cp_call' = [cp_call EXCEPT !.log = log, !.next = @ + 1]
                     /\ cp_pc' = "looping"
                     /\ UNCHANGED cp_done
                [] outcome = "page" ->
                     /\ cp_call' = [cp_call EXCEPT
                            !.log = log,
                            !.created_pages = Append(@, page_id),
                            !.next = IF note_Wanted(cp_call.auto_create_notes, page_data)
                                     THEN @ ELSE @ + 1]
                     /\ cp_pc' = IF note_Wanted(cp_call.auto_create_notes, page_data)
                                 THEN "noting" ELSE "looping"
                     /\ UNCHANGED cp_done
    /\ UNCHANGED notCp

\* the rest of the pass: self._note_service.create({...}) for the page
create_pages_Note ==
    /\ cp_pc = "noting"
    /\ \E outcome \in NoteOutcomes :
          LET page_data == cp_call.suggested_pages[cp_call.next]
              page_id == cp_call.created_pages[Len(cp_call.created_pages)]
              entry == [op |-> "note", outcome |-> outcome, page_id |-> page_id,
                        data |-> [page_id |-> page_id,
                                  content |-> page_data.suggested_content,
                                  note_type |-> "text",
                                  position |-> 0]]
              log == Append(cp_call.log, entry)
          IN  IF outcome = "raises"
              THEN /\ cp_call' = [cp_call EXCEPT !.log = log]
                   /\ cp_done' = Append(cp_done,
                          CreateDone(Err(Exception("ValueError", "note")), log))
                   /\ cp_pc' = "returned"
              ELSE /\ cp_call' = [cp_call EXCEPT !.log = log, !.next = @ + 1]
                   /\ cp_pc' = "looping"
                   /\ UNCHANGED cp_done
    /\ UNCHANGED notCp

\* return Ok(created_pages)
create_pages_Return ==
    /\ cp_pc = "looping"
    /\ cp_call.next > Len(cp_call.suggested_pages)
    /\ cp_done' = Append(cp_done, CreateDone(Ok(cp_call.created_pages), cp_call.log))
    /\ cp_pc' = "returned"
    /\ UNCHANGED cp_call
    /\ UNCHANGED notCp

NoCreateCall ==
    [suggested_pages |-> <<>>, auto_create_notes |-> FALSE, next |-> 1,
     created_pages |-> <<>>, log |-> <<>>]

cpIdle ==
    /\ cp_pc = "idle"
    /\ cp_call = NoCreateCall
    /\ cp_done = <<>>

auxIdle == xtIdle /\ gitIdle /\ txIdle /\ auIdle /\ rpIdle /\ lpIdle /\ sseIdle /\ rsIdle /\ pgIdle /\ cpIdle
notXtIdle == gitIdle /\ txIdle /\ auIdle /\ rpIdle /\ lpIdle /\ sseIdle /\ rsIdle /\ pgIdle /\ cpIdle
notGitIdle == xtIdle /\ txIdle /\ auIdle /\ rpIdle /\ lpIdle /\ sseIdle /\ rsIdle /\ pgIdle /\ cpIdle
notTxIdle == xtIdle /\ gitIdle /\ auIdle /\ rpIdle /\ lpIdle /\ sseIdle /\ rsIdle /\ pgIdle /\ cpIdle
notAuIdle == xtIdle /\ gitIdle /\ txIdle /\ rpIdle /\ lpIdle /\ sseIdle /\ rsIdle /\ pgIdle /\ cpIdle
notRpAuIdle == xtIdle /\ gitIdle /\ txIdle /\ lpIdle /\ sseIdle /\ rsIdle /\ pgIdle /\ cpIdle
notRpIdle == xtIdle /\ gitIdle /\ txIdle /\ auIdle /\ lpIdle /\ sseIdle /\ rsIdle /\ pgIdle /\ cpIdle
notLpIdle == xtIdle /\ gitIdle /\ txIdle /\ auIdle /\ rpIdle /\ sseIdle /\ rsIdle /\ pgIdle /\ cpIdle
notSseIdle == xtIdle /\ gitIdle /\ txIdle /\ auIdle /\ rpIdle /\ lpIdle /\ rsIdle /\ pgIdle /\ cpIdle
notRsIdle == xtIdle /\ gitIdle /\ txIdle /\ auIdle /\ rpIdle /\ lpIdle /\ sseIdle /\ pgIdle /\ cpIdle
notPgIdle == xtIdle /\ gitIdle /\ txIdle /\ auIdle /\ rpIdle /\ lpIdle /\ sseIdle /\ rsIdle /\ cpIdle
notCpIdle == xtIdle /\ gitIdle /\ txIdle /\ auIdle /\ rpIdle /\ lpIdle /\ sseIdle /\ rsIdle /\ pgIdle

\* ---------------------------------------------------------- specifications

\* the chunker on its own: any configuration, one chunk() call
ChunkerInit ==
    /\ ck_config \in ChunkConfigs
    /\ ckIdle
    /\ cl_config = [max_retries |-> DefaultMaxRetries,
                    temperature |-> DefaultTemperature, model |-> "gpt-oss-20b"]
    /\ cl_has_cache = FALSE
    /\ cache_default_ttl = {}
    /\ clIdle /\ busIdle /\ exIdle /\ auxIdle

ChunkerNext == chunk_Call \/ chunk_LoopBody \/ chunk_Return

SpecChunker == ChunkerInit /\ [][ChunkerNext]_vars

\* the client: any configuration, with or without a cache
ClientInit ==
    /\ cl_config \in [max_retries : 0..DefaultMaxRetries,
                       temperature : {0, DefaultTemperature},
                       model : {"gpt-oss-20b"}]
    /\ cl_has_cache \in BOOLEAN
    /\ cache_default_ttl \in { {}, {60} }
    /\ clIdle
    /\ ck_config = ChunkingConfig(DefaultMaxTokens, DefaultOverlapTokens)
    /\ ckIdle /\ busIdle /\ exIdle /\ auxIdle

ClientNext ==
    \/ complete_Call
    \/ complete_CacheGet
    \/ complete_Post
    \/ complete_CacheSet
    \/ complete_Backoff
    \/ complete_Exhausted

SpecClient == ClientInit /\ [][ClientNext]_vars

\* the client used for completions and for streams, with and without a
\* cache, at both temperatures
StreamingInit ==
    /\ cl_config \in [max_retries : 0..(DefaultMaxRetries - 1),
                       temperature : {0, DefaultTemperature},
                       model : {"gpt-oss-20b"}]
    /\ cl_has_cache \in BOOLEAN
    /\ cache_default_ttl = {}
    /\ clIdle
    /\ ck_config = ChunkingConfig(DefaultMaxTokens, DefaultOverlapTokens)
    /\ ckIdle /\ busIdle /\ exIdle /\ auxIdle

StreamingNext == ClientNext \/ stream_Call

SpecStreaming == StreamingInit /\ [][StreamingNext]_vars

\* the event bus: handlers come and go between publishes
BusInit ==
    /\ busIdle
    /\ ck_config = ChunkingConfig(DefaultMaxTokens, DefaultOverlapTokens)
    /\ cl_config = [max_retries |-> DefaultMaxRetries,
                    temperature |-> DefaultTemperature, model |-> "gpt-oss-20b"]
    /\ cl_has_cache = FALSE
    /\ cache_default_ttl = {}
    /\ ckIdle /\ clIdle /\ exIdle /\ auxIdle

BusNext ==
    \/ subscribe
    \/ unsubscribe
    \/ publish_Call
    \/ publish_Typed
    \/ publish_TypedEnd
    \/ publish_Wildcard
    \/ publish_Return

SpecBus == BusInit /\ [][BusNext]_vars

\* the event bus with handlers of the event's own type that subscribe and
\* unsubscribe while the event is being delivered to them
BusReentrantNext ==
    \/ subscribe
    \/ unsubscribe
    \/ publish_Call
    \/ publish_TypedReentrant
    \/ publish_TypedEnd
    \/ publish_Wildcard
    \/ publish_Return

SpecBusReentrant == BusInit /\ [][BusReentrantNext]_vars

\* the extraction service as ExtractionService.__init__ builds it: the
\* chunker with the default ChunkingConfig and the client's token counter.
\* chunk() is entered with max_tokens = ContextWindow - ResponseReserve and
\* the default overlap, under which its loop never ends (see C7), so nothing
\* of extract_paper after the call of the chunker is reached
ExtractInit ==
    /\ ck_config = ChunkingConfig(DefaultMaxTokens, DefaultOverlapTokens)
    /\ cl_config = [max_retries |-> DefaultMaxRetries,
                    temperature |-> DefaultTemperature, model |-> "gpt-oss-20b"]
    /\ cl_has_cache = TRUE
    /\ cache_default_ttl = {}
    /\ ckIdle /\ clIdle /\ busIdle /\ exIdle /\ auxIdle

ExtractNext ==
    \/ extract_Begin
    \/ extract_Prepare
    \/ chunk_LoopBody
    \/ extract_Finish

SpecExtract == ExtractInit /\ [][ExtractNext]_vars

\* the cache on its own: set, get and clear_expired as time passes
CacheInit ==
    /\ cache_default_ttl \in { {}, {1} }
    /\ cl_config = [max_retries |-> DefaultMaxRetries,
                    temperature |-> DefaultTemperature, model |-> "gpt-oss-20b"]
    /\ cl_has_cache = TRUE
    /\ ck_config = ChunkingConfig(DefaultMaxTokens, DefaultOverlapTokens)
    /\ ckIdle /\ clIdle /\ busIdle /\ exIdle /\ auxIdle

CacheNext ==
    cache_set \/ cache_get \/ cache_clear_expired \/ cache_get_stats \/ cache_Tick

SpecCache == CacheInit /\ [][CacheNext]_vars

\* an extractor on its own: any template, content and context
ExtractorInit ==
    /\ ck_config = ChunkingConfig(DefaultMaxTokens, DefaultOverlapTokens)
    /\ cl_config = [max_retries |-> DefaultMaxRetries,
                    temperature |-> DefaultTemperature, model |-> "gpt-oss-20b"]
    /\ cl_has_cache = FALSE
    /\ cache_default_ttl = {}
    /\ ckIdle /\ clIdle /\ busIdle /\ exIdle /\ auxIdle

ExtractorNext == extractor_Call \/ extractor_Answer

SpecExtractor == ExtractorInit /\ [][ExtractorNext]_vars

\* the git manager: a repository with the default branch and a feature
\* branch that forked from it, each with up to one commit per file since,
\* any tracked file locally modified, either branch checked out
GitInit ==
    /\ \E m \in {<<>>} \cup {<<Commit(f, "m1")>> : f \in Files},
          t \in {<<>>} \cup {<<Commit(f, "f1")>> : f \in Files}
                 \cup {<<Commit(f, "f1"), Commit(g, "f2")>> :
                          f \in Files, g \in Files} :
          git_heads = [b \in {default_branch, "feat"} |->
                          IF b = default_branch THEN m ELSE t]
    /\ git_HEAD \in {default_branch, "feat"}
    /\ git_dirty \in SUBSET Files
    /\ git_rebasing = {}
    /\ gmIdle
    /\ ck_config = ChunkingConfig(DefaultMaxTokens, DefaultOverlapTokens)
    /\ ckIdle
    /\ cl_config = [max_retries |-> DefaultMaxRetries,
                    temperature |-> DefaultTemperature, model |-> "gpt-oss-20b"]
    /\ cl_has_cache = FALSE
    /\ cache_default_ttl = {}
    /\ clIdle /\ busIdle /\ exIdle /\ notGitIdle

GitNext ==
    \/ rebase_onto_main_Call
    \/ rebase_onto_main_CheckoutBranch
    \/ rebase_onto_main_Rebase
    \/ rebase_onto_main_CheckoutMain
    \/ rebase_onto_main_Merge
    \/ rebase_onto_main_DeleteHead
    \/ rebase_onto_main_Except

SpecGit == GitInit /\ [][GitNext]_vars

\* the transaction scope: the database initialised or not, any rows already
\* committed, with blocks entered one after another
TransactionInit ==
    /\ _connection \in {{}, {"conn"}}
    /\ db_rows \in SUBSET Rows
    /\ db_pending = {}
    /\ tx_pc = "idle"
    /\ tx_calls = <<>>
    /\ tx_before = {}
    /\ tx_done = <<>>
    /\ ck_config = ChunkingConfig(DefaultMaxTokens, DefaultOverlapTokens)
    /\ cl_config = [max_retries |-> DefaultMaxRetries,
                    temperature |-> DefaultTemperature, model |-> "gpt-oss-20b"]
    /\ cl_has_cache = FALSE
    /\ cache_default_ttl = {}
    /\ ckIdle /\ clIdle /\ busIdle /\ exIdle /\ notTxIdle

TransactionNext ==
    \/ transaction_Enter
    \/ body_Execute
    \/ body_Delete
    \/ transaction_Commit
    \/ transaction_BodyRaises

SpecTransaction == TransactionInit /\ [][TransactionNext]_vars

\* the auth commands: any token or none in the keyring, any set of tokens
\* accepted by GitHub, login and refresh run one after another
AuthInit ==
    /\ keyring \in {{}} \cup {{t} : t \in Tokens}
    /\ gh_valid \in SUBSET Tokens
    /\ au_pc = "idle"
    /\ au_call = NoCommand
    /\ au_done = <<>>
    /\ ck_config = ChunkingConfig(DefaultMaxTokens, DefaultOverlapTokens)
    /\ cl_config = [max_retries |-> DefaultMaxRetries,
                    temperature |-> DefaultTemperature, model |-> "gpt-oss-20b"]
    /\ cl_has_cache = FALSE
    /\ cache_default_ttl = {}
    /\ ckIdle /\ clIdle /\ busIdle /\ exIdle /\ notAuIdle

AuthNext ==
    \/ auth_login_Call
    \/ auth_login_Existing
    \/ auth_login_Token
    \/ auth_refresh
    \/ _validate_and_store_token

SpecAuth == AuthInit /\ [][AuthNext]_vars

\* repo put: any of the paths already on GitHub's main branch, a stored token
\* or none, commands run one after another
RepoInit ==
    /\ \E on_main \in SUBSET Paths :
          gh_contents = [k \in Branches \X Paths |->
                            IF k[1] = "main" /\ k[2] \in on_main
                            THEN {BlobSha(b64encode("x"))} ELSE {}]
    /\ rp_pc = "idle"
    /\ rp_call = NoPut
    /\ rp_done = <<>>
    /\ keyring \in {{}} \cup {{t} : t \in Tokens}
    /\ auRest
    /\ ck_config = ChunkingConfig(DefaultMaxTokens, DefaultOverlapTokens)
    /\ cl_config = [max_retries |-> DefaultMaxRetries,
                    temperature |-> DefaultTemperature, model |-> "gpt-oss-20b"]
    /\ cl_has_cache = FALSE
    /\ cache_default_ttl = {}
    /\ ckIdle /\ clIdle /\ busIdle /\ exIdle /\ notRpAuIdle

RepoNext == repo_put_file_Call \/ repo_put_file_Lookup \/ repo_put_file_Put

SpecRepo == RepoInit /\ [][RepoNext]_vars

\* the legacy scraper CLI: any of the papers already downloaded, one
\* list_papers command with up to MaxPrompts inputs
ScraperInit ==
    /\ lp_downloaded \in SUBSET {"p1", "p2", "c1"}
    /\ lp_pc = "idle"
    /\ lp_directory = ""
    /\ lp_frames = <<>>
    /\ lp_log = <<>>
    /\ ck_config = ChunkingConfig(DefaultMaxTokens, DefaultOverlapTokens)
    /\ cl_config = [max_retries |-> DefaultMaxRetries,
                    temperature |-> DefaultTemperature, model |-> "gpt-oss-20b"]
    /\ cl_has_cache = FALSE
    /\ cache_default_ttl = {}
    /\ ckIdle /\ clIdle /\ busIdle /\ exIdle /\ notLpIdle

ScraperNext == list_papers_Call \/ list_papers_Prompt

SpecScraper == ScraperInit /\ [][ScraperNext]_vars

\* stream() reading an answer of status 200: any lines, up to MaxLines
SseInit ==
    /\ sse_lines \in UNION {[1..n -> SseLines] : n \in 0..MaxLines}
    /\ sse_pos = 0
    /\ sse_pc = "reading"
    /\ sse_yielded = <<>>
    /\ sse_raised = {}
    /\ ck_config = ChunkingConfig(DefaultMaxTokens, DefaultOverlapTokens)
    /\ cl_config = [max_retries |-> DefaultMaxRetries,
                    temperature |-> DefaultTemperature, model |-> "gpt-oss-20b"]
    /\ cl_has_cache = FALSE
    /\ cache_default_ttl = {}
    /\ ckIdle /\ clIdle /\ busIdle /\ exIdle /\ notSseIdle

SseNext == stream_Line \/ stream_End

SpecSse == SseInit /\ [][SseNext]_vars

\* the Result type: any Result, any function of values, any function from
\* values to Results, any list of up to MaxResults Results
ResultInit ==
    /\ rs_r \in Results
    /\ rs_fn \in [Values -> Values]
    /\ rs_chain \in [Values -> Results]
    /\ rs_results \in UNION {[1..n -> Results] : n \in 0..MaxResults}
    /\ rs_out = <<>>
    /\ ck_config = ChunkingConfig(DefaultMaxTokens, DefaultOverlapTokens)
    /\ cl_config = [max_retries |-> DefaultMaxRetries,
                    temperature |-> DefaultTemperature, model |-> "gpt-oss-20b"]
    /\ cl_has_cache = FALSE
    /\ cache_default_ttl = {}
    /\ ckIdle /\ clIdle /\ busIdle /\ exIdle /\ notRsIdle

ResultNext == result_map \/ result_and_then \/ result_collect

SpecResult == ResultInit /\ [][ResultNext]_vars

\* get_paginated: any table of up to MaxRows rows of each kind, any page
\* from 1 to MaxPage, any page size from 1 to MaxPageSize, any filter
PaginatedInit ==
    /\ pg_table \in [Kinds -> 0..MaxRows]
    /\ pg_args \in [page : 1..MaxPage, page_size : 1..MaxPageSize,
                    filters : FilterOptions]
    /\ pg_result = {}
    /\ ck_config = ChunkingConfig(DefaultMaxTokens, DefaultOverlapTokens)
    /\ cl_config = [max_retries |-> DefaultMaxRetries,
                    temperature |-> DefaultTemperature, model |-> "gpt-oss-20b"]
    /\ cl_has_cache = FALSE
    /\ cache_default_ttl = {}
    /\ ckIdle /\ clIdle /\ busIdle /\ exIdle /\ notPgIdle

PaginatedNext == get_paginated

SpecPaginated == PaginatedInit /\ [][PaginatedNext]_vars

\* extractors on the client the service builds: max_retries configured as
\* 2, with or without a cache, the configured temperature 0.0 or the default
ExtractorClientInit ==
    /\ cl_config \in [max_retries : {DefaultMaxRetries - 1},
                       temperature : {0, DefaultTemperature},
                       model : {"gpt-oss-20b"}]
    /\ cl_has_cache \in BOOLEAN
    /\ cache_default_ttl = {}
    /\ clIdle
    /\ ck_config = ChunkingConfig(DefaultMaxTokens, DefaultOverlapTokens)
    /\ ckIdle /\ busIdle /\ exIdle /\ auxIdle

ExtractorClientNext ==
    \/ extractor_Call
    \/ extract_Complete
    \/ complete_Post
    \/ complete_Backoff
    \/ complete_Exhausted
    \/ extract_Answered

SpecExtractorClient == ExtractorClientInit /\ [][ExtractorClientNext]_vars

\* create_pages_from_extraction on its own: any suggestions, either flag,
\* any outcome of each service call
CreatePagesInit ==
    /\ cp_pc = "idle"
    /\ cp_call = NoCreateCall
    /\ cp_done = <<>>
    /\ cl_config = [max_retries |-> DefaultMaxRetries,
                    temperature |-> DefaultTemperature, model |-> "gpt-oss-20b"]
    /\ cl_has_cache = TRUE
    /\ cache_default_ttl = {}
    /\ ck_config = ChunkingConfig(DefaultMaxTokens, DefaultOverlapTokens)
    /\ ckIdle /\ clIdle /\ busIdle /\ exIdle /\ notCpIdle

CreatePagesNext ==
    \/ create_pages_Call
    \/ create_pages_Page
    \/ create_pages_Note
    \/ create_pages_Return

SpecCreatePages == CreatePagesInit /\ [][CreatePagesNext]_vars

\* ------------------------------------------------------------------ claims

\* ---- client (SpecClient)

\* every POST of the call was answered with HTTP 200
AllOk(call) ==
    \A k \in 1..Len(call.answers) :
        call.answers[k].kind = "http" /\ call.answers[k].status = 200

\* the answer is one complete() retries after: a status >= 500 or a network error
Retryable(answer) ==
    \/ answer.kind = "request_error"
    \/ answer.kind = "http" /\ answer.status >= 500

\* C1: with a cache configured, two consecutive complete() calls with the
\* same messages and temperature 0.0, the backend answering 200, issue at
\* most one POST in total: the first call returns the backend's response
\* (and stores it), the second returns the same content with cached=true
\* and issues no POST.
C1_SecondCallServedFromCache ==
    \A i \in 1..(Len(calls) - 1) :
        LET first == calls[i]
            second == calls[i + 1]
        IN  ( /\ cl_has_cache
              /\ cl_config.max_retries >= 1
              /\ first.messages = second.messages
              /\ first.temperature = 0
              /\ second.temperature = 0
              /\ AllOk(first)
              /\ AllOk(second) )
            => /\ Len(first.answers) + Len(second.answers) <= 1
               /\ first.kind = "return"
               /\ Len(first.answers) = 1 =>
                     first.response.content = first.answers[1].content
               /\ second.kind = "return"
               /\ second.response.cached
               /\ second.response.content = first.response.content
               /\ Len(second.answers) = 0

\* C2: a complete() call makes at most max_retries POSTs; when its first
\* N-1 POSTs are answered with a status >= 500 and the N-th with 200, it
\* returns the response of the N-th; when all max_retries POSTs fail with a
\* status >= 500 or a network error, it raises a failure naming max_retries
\* and the last error.
C2_RetriesThenResponseOrFailure ==
    \A i \in 1..Len(calls) :
        LET call == calls[i]
            n == Len(call.answers)
        IN  /\ n <= cl_config.max_retries
            /\ ( /\ n >= 1
                 /\ \A k \in 1..(n - 1) :
                        call.answers[k].kind = "http" /\ call.answers[k].status >= 500
                 /\ call.answers[n].kind = "http" /\ call.answers[n].status = 200 )
               => /\ call.kind = "return"
                  /\ call.response.content = call.answers[n].content
            /\ ( /\ n >= 1
                 /\ n = cl_config.max_retries
                 /\ \A k \in 1..n : Retryable(call.answers[k]) )
               => /\ call.kind = "raise"
                  /\ call.error.kind = "exception"
                  /\ call.error.type = "RuntimeError"
                  /\ call.error.retries = cl_config.max_retries
                  /\ call.error.last_error = call.answers[n]

\* ---- event bus (SpecBus)

\* the deliveries publish() owes for the subscriptions held when it was
\* called: the event's own handlers in order, then the wildcard handlers
Owed ==
    [k \in 1..Len(pb_at_call[pb_event]) |->
        [handler |-> pb_at_call[pb_event][k], key |-> pb_event]]
    \o [k \in 1..Len(pb_at_call[Wildcard]) |->
        [handler |-> pb_at_call[Wildcard][k], key |-> Wildcard]]

Delivered ==
    [k \in 1..Len(invoked) |->
        [handler |-> invoked[k].handler, key |-> invoked[k].key]]

\* C3: publish(e) for an event of type T calls the handlers subscribed to T
\* in subscription order, then those subscribed to "*" in subscription
\* order, each subscription once, and no handler of another type: while
\* publish runs the calls made are a prefix of that list, and when it has
\* returned they are the whole list.
C3_DeliveryOrder ==
    pb_event # NoEvent =>
        /\ Len(Delivered) <= Len(Owed)
        /\ Delivered = SubSeq(Owed, 1, Len(Delivered))
        /\ pb_pc = "idle" => Delivered = Owed

\* C3's case: H1 then H2 subscribed to T, W to "*", H3 to another type;
\* a publish of T has returned after calling H1, H2, W
C3_Witness ==
    /\ pb_pc = "idle"
    /\ pb_event = "PaperCreatedEvent"
    /\ pb_at_call["PaperCreatedEvent"] = <<"H1", "H2">>
    /\ pb_at_call[Wildcard] = <<"W">>
    /\ pb_at_call["NoteCreatedEvent"] = <<"H3">>
    /\ [k \in 1..Len(invoked) |-> invoked[k].handler] = <<"H1", "H2", "W">>

\* C4: a handler that raises during publish() does not end the publish: no
\* exception leaves publish(), the loops go on, and when publish() has
\* returned every subscription after the failing one has been called too.
C4_HandlerFailureContained ==
    (\E k \in 1..Len(invoked) : invoked[k].outcome = "raises") =>
        /\ ~pb_propagated
        /\ pb_pc = "idle" => Len(invoked) = Len(Owed)
        /\ pb_pc # "idle" =>
              \/ pb_pc = "typed"
              \/ pb_pc = "wildcard"

\* C4's case: the first of three handlers raised, the other two were called
\* after it and publish() has returned
C4_Witness ==
    /\ pb_pc = "idle"
    /\ Len(invoked) = 3
    /\ invoked[1].outcome = "raises"
    /\ invoked[1].key = pb_event
    /\ invoked[2].key = pb_event
    /\ invoked[3].key = Wildcard
    /\ ~pb_propagated

\* ---- extraction service (SpecExtract)

ProgressEvents == SelectSeq(published, LAMBDA e : e.type = "ExtractionProgressEvent")
CompletedEvents == SelectSeq(published, LAMBDA e : e.type = "ExtractionCompletedEvent")

\* C5: within one extract_paper call the progress fractions of the
\* published ExtractionProgressEvents never decrease in publication order;
\* and the fractions the chunked path passes, 0.3 for "chunking", then
\* 0.3 + 0.5*i/n for chunk i of n, then 0.9, never decrease either, for
\* every n from 1 up.
C5_ProgressMonotonic ==
    /\ \A i, j \in 1..Len(ProgressEvents) :
          i < j => FractionLe(ProgressEvents[i].progress, ProgressEvents[j].progress)
    /\ \A n \in 1..(MaxChunks + 1) :
          /\ FractionLe(StageProgress("chunking"), ChunkProgress(0, n))
          /\ \A i \in 0..(n - 2) :
                FractionLe(ChunkProgress(i, n), ChunkProgress(i + 1, n))
          /\ FractionLe(ChunkProgress(n - 1, n), StageProgress("finalizing"))

\* C5's case: a call on the full path has published all five stages
C5_Witness ==
    /\ ex_pc = "returned"
    /\ [k \in 1..Len(ProgressEvents) |-> ProgressEvents[k].stage]
           = <<"parsing", "analyzing", "extracting", "finalizing", "complete">>

\* C6: when a step of extract_paper raises inside the try block, the call
\* does not raise: it publishes exactly one ExtractionCompletedEvent, with
\* success=false and zero counts, as its last event, and returns Err of the
\* exception raised.
C6_FailureReported ==
    \A e \in ex_raised :
        /\ ex_pc = "returned"
        /\ ex_return = {Err(e)}
        /\ Len(CompletedEvents) = 1
        /\ published[Len(published)]
               = ExtractionCompletedEvent(ex_input.paper_id, FALSE, 0, 0)

\* C6's case: the model conversion raised after "finalizing" was published
C6_Witness ==
    /\ ex_raised = {Exception("AttributeError", "get")}
    /\ ex_pc = "returned"
    /\ Len(ProgressEvents) = 4

\* ---- chunker (SpecChunker)

\* C7: chunk() terminates. The body of its loop is a function of
\* current_pos alone, so a terminating loop never starts two passes at the
\* same position; and the loop ends once a chunk has reached the end of the
\* text.
C7_ChunkTerminates ==
    ck_pc = "loop" =>
        /\ \A i, j \in 1..Len(chunks) :
              i < j => chunks[i].start_char # chunks[j].start_char
        /\ \A i \in 1..Len(chunks) : chunks[i].start_char # current_pos
        /\ (\E i \in 1..Len(chunks) : chunks[i].end_char = Len(ck_text))
              => ~(current_pos < Len(ck_text))

\* C8: every chunk chunk() returns has token_count <= max_tokens.
C8_ChunksWithinBudget ==
    ck_pc = "done" =>
        \A k \in 1..Len(ck_result) : ck_result[k].token_count <= ck_max_tokens

\* C9: for a text of more than max_tokens tokens, every chunk returned
\* carries total_chunks = the number of chunks returned, and the index
\* values are 0, 1, ... in list order.
C9_TotalAndIndex ==
    (ck_pc = "done" /\ count_tokens(ck_text) > ck_max_tokens) =>
        \A k \in 1..Len(ck_result) :
            /\ ck_result[k].total_chunks = Len(ck_result)
            /\ ck_result[k].index = k - 1

\* C9's case: chunk() has returned several chunks for a text over the budget
C9_Witness ==
    /\ ck_pc = "done"
    /\ count_tokens(ck_text) > ck_max_tokens
    /\ Len(ck_result) >= 2

\* C10: for a text of at most max_tokens tokens (the empty text included)
\* chunk() returns exactly one ChunkInfo: index 0, total_chunks 1,
\* start_char 0, end_char = len(text), text = the whole input.
C10_SingleChunk ==
    (ck_pc # "idle" /\ count_tokens(ck_text) <= ck_max_tokens) =>
        /\ ck_pc = "done"
        /\ Len(ck_result) = 1
        /\ ck_result[1].index = 0
        /\ ck_result[1].total_chunks = 1
        /\ ck_result[1].start_char = 0
        /\ ck_result[1].end_char = Len(ck_text)
        /\ ck_result[1].text = ck_text

\* C10's case: a text of exactly max_tokens tokens has been chunked
C10_Witness ==
    /\ ck_pc = "done"
    /\ ck_text # <<>>
    /\ count_tokens(ck_text) = ck_max_tokens
    /\ Len(ck_result) = 1

\* ---- response cache (SpecCache)

\* the row of `key` exists in `rows` and is not expired at time t, as get()
\* is specified to see it: no expiry, or an expiry strictly after t
LiveAt(rows, key, t) ==
    /\ key \in DOMAIN rows
    /\ \/ rows[key].expires_at = {}
       \/ \E e \in rows[key].expires_at : e > t

\* C11: get(key) returns the stored entry, its response carrying the stored
\* content and cached=true, exactly when a row for key exists whose
\* expires_at is absent or strictly greater than the time of the call;
\* otherwise it returns None.
C11_GetReturnsLiveEntry ==
    \A i \in 1..Len(cache_log) :
        LET c == cache_log[i]
        IN  c.op = "get" =>
              IF LiveAt(c.before, c.key, c.time)
              THEN /\ c.result.kind = "entry"
                   /\ c.result.response.content = c.before[c.key].response_content
                   /\ c.result.response.cached
              ELSE c.result.kind = "none"

\* C12: an entry stored by set(key, response, ttl=0) gets expires_at =
\* insertion time + 0, whatever the default TTL, so every get(key) made
\* after that instant (and before the key is stored again) is a miss.
C12_ZeroTtlExpiresAtOnce ==
    \A i \in 1..Len(cache_log) :
        LET c == cache_log[i]
        IN  (c.op = "set" /\ c.ttl = {0} /\ c.result.kind = "ok") =>
              /\ c.after[c.key].expires_at = {c.time}
              /\ \A j \in (i + 1)..Len(cache_log) :
                    LET g == cache_log[j]
                    IN  ( /\ g.op = "get"
                          /\ g.key = c.key
                          /\ g.time > c.time
                          /\ \A m \in (i + 1)..(j - 1) :
                                ~(cache_log[m].op = "set" /\ cache_log[m].key = c.key) )
                        => g.result.kind = "none"

\* C13: clear_expired() deletes exactly the rows whose expires_at is set and
\* earlier than the time of the call, returns how many it deleted, and
\* leaves every row with no expiry or a later expiry as it was.
C13_ClearExpiredExact ==
    \A i \in 1..Len(cache_log) :
        LET c == cache_log[i]
            past == {k \in DOMAIN c.before :
                        \E e \in c.before[k].expires_at : e < c.time}
            deleted == DOMAIN c.before \ DOMAIN c.after
        IN  c.op = "clear_expired" =>
              /\ DOMAIN c.after \subseteq DOMAIN c.before
              /\ deleted = past
              /\ c.result.rowcount = Cardinality(deleted)
              /\ \A k \in DOMAIN c.before :
                    LiveAt(c.before, k, c.time) =>
                        k \in DOMAIN c.after /\ c.after[k] = c.before[k]

\* C13's case: a clear_expired() that found an expired row beside a row
\* expiring later, deleted the one and kept the other
C13_Witness ==
    \E i \in 1..Len(cache_log) :
        LET c == cache_log[i]
        IN  /\ c.op = "clear_expired"
            /\ c.result.rowcount = 1
            /\ \E k \in DOMAIN c.after : \E e \in c.after[k].expires_at : e > c.time

\* ---- completions and streams outside the cache (SpecStreaming)

\* C14: a complete() call whose effective temperature is not 0.0, and every
\* stream() call, makes no ResponseCache call and leaves the rows of the
\* cache as they were; such a complete() call that returns, returns the
\* answer to a POST of its own with cached=false, and every stream() call
\* issues its POST, whatever was requested before.
C14_NoCacheOutsideDeterministic ==
    /\ \A i \in 1..Len(calls) :
          LET call == calls[i]
              n == Len(call.answers)
          IN  call.temperature # 0 =>
                /\ call.cache_calls = 0
                /\ call.rows_after = call.rows_before
                /\ cl_config.max_retries >= 1 => n >= 1
                /\ call.kind = "return" =>
                      /\ ~call.response.cached
                      /\ n >= 1
                      /\ call.response.content = call.answers[n].content
    /\ \A i \in 1..Len(streams) :
          /\ streams[i].cache_calls = 0
          /\ streams[i].rows_after = streams[i].rows_before
          /\ streams[i].posts = 1

\* C14's case: with a cache configured, the same request completed twice at
\* temperature 0.1, each time by a POST of its own, and a stream at
\* temperature 0.0
C14_Witness ==
    /\ cl_has_cache
    /\ Len(calls) = 2
    /\ calls[1].messages = calls[2].messages
    /\ calls[1].temperature = 1
    /\ calls[2].temperature = 1
    /\ calls[1].kind = "return" /\ Len(calls[1].answers) = 1
    /\ calls[2].kind = "return" /\ Len(calls[2].answers) = 1
    /\ Len(streams) = 1
    /\ streams[1].temperature = 0
    /\ streams[1].kind = "yield"

\* ---- extractors (SpecExtractor)

\* C15: when the template requires a variable that is neither "content" nor
\* a key of the context, extract() returns success=false, empty data,
\* confidence 0.0 and a non-empty error list, and makes no call to the LLM
\* client.
C15_MissingVariableFailsWithoutCall ==
    \A i \in 1..Len(xt_done) :
        LET x == xt_done[i]
        IN  (\E v \in get_required_variables(x.template) :
                 v # K_content /\ v \notin Keys(x.context))
            => /\ ~x.result.success
               /\ x.result.data = EmptyData
               /\ x.result.confidence = Fraction(0, 1)
               /\ x.result.errors # <<>>
               /\ x.llm_calls = <<>>

\* C15's case: the template needs {title}, the context has only an abstract
C15_Witness ==
    \E i \in 1..Len(xt_done) :
        /\ K_title \in get_required_variables(xt_done[i].template)
        /\ Keys(xt_done[i].context) = {K_abstract}
        /\ ~xt_done[i].result.success

\* ---- extraction service, backend unavailable (SpecExtract)

\* C16: when the health check reports the backend unavailable, extract_paper
\* returns Err of a connection error that names the configured base URL,
\* having published no ExtractionProgressEvent, not called the PDF parser and
\* started no extraction (so no completion request).
C16_UnavailableShortCircuits ==
    (\E r \in ex_return : ~r.ok /\ r.error = ConnectionError(get_base_url)) =>
        /\ ex_pc = "returned"
        /\ ProgressEvents = <<>>
        /\ published = <<ExtractionStartedEvent(ex_input.paper_id)>>
        /\ ex_calls = <<"check_backend_health">>

\* C16's case: an extract_paper call has returned the connection error
C16_Witness ==
    /\ ex_pc = "returned"
    /\ ex_return = {Err(ConnectionError(get_base_url))}
    /\ ex_calls = <<"check_backend_health">>

\* ---- git manager (SpecGit)

\* the call started on a clean working tree with a feature branch whose
\* commits since the merge base touch no file the default branch changed
RebasesCleanly(c) ==
    /\ c.branch_name \in DOMAIN c.heads_before
    /\ c.branch_name # default_branch
    /\ c.dirty_before = {}
    /\ LET mine == c.heads_before[c.branch_name]
           theirs == c.heads_before[default_branch]
           base == MergeBase(mine, theirs)
       IN  \A i \in (base + 1)..Len(mine), j \in (base + 1)..Len(theirs) :
               mine[i].file # theirs[j].file

\* C17: rebase_onto_main(B) for a feature branch B that rebases onto the
\* default branch without conflicts returns True, with the default branch
\* checked out and holding every commit of B, B deleted, and the commands run
\* in the order checkout B, rebase, checkout default, ff-only merge, delete B
C17_CleanRebaseMergesAndDeletes ==
    \A i \in 1..Len(gm_done) :
        LET c == gm_done[i]
            B == c.branch_name
        IN  RebasesCleanly(c) =>
                /\ c.kind = "return" /\ c.value = TRUE
                /\ c.HEAD_after = default_branch
                /\ \A k \in 1..Len(c.heads_before[B]) :
                       \E n \in 1..Len(c.heads_after[default_branch]) :
                           c.heads_after[default_branch][n] = c.heads_before[B][k]
                /\ IsPrefix(c.heads_before[default_branch],
                            c.heads_after[default_branch])
                /\ B \notin DOMAIN c.heads_after
                /\ c.cmds = << <<"checkout", B>>, <<"rebase", default_branch>>,
                               <<"checkout", default_branch>>,
                               <<"merge --ff-only", B>>, <<"branch -d", B>> >>

\* a finished call that rebased two commits of the feature branch over a
\* commit the default branch had gained
C17_Witness ==
    \E i \in 1..Len(gm_done) :
        /\ RebasesCleanly(gm_done[i])
        /\ Len(gm_done[i].heads_before[gm_done[i].branch_name]) = 2
        /\ Len(gm_done[i].heads_before[default_branch]) = 1
        /\ gm_done[i].kind = "return"
        /\ Len(gm_done[i].heads_after[default_branch]) = 3

\* C18: when a git command of rebase_onto_main's sequence fails, the rebase
\* is aborted and the caller gets the RuntimeError "Rebase failed: ..."
C18_FailureAbortsAndWraps ==
    \A i \in 1..Len(gm_done) :
        gm_done[i].caught # {} =>
            /\ gm_done[i].kind = "raise"
            /\ gm_done[i].value.type = "RuntimeError"
            /\ gm_done[i].rebasing_after = {}

\* ---- database connection (SpecTransaction)

\* how many times the scope called `name` on the connection
CountCalls(ops, name) ==
    Cardinality({k \in 1..Len(ops) : ops[k] = name})

\* C19: a transaction() scope whose body completes normally commits the
\* connection exactly once; one whose body raises rolls back, commits nothing,
\* and the caller gets the exception the body raised
C19_CommitOnceOrRollback ==
    \A i \in 1..Len(tx_done) :
        LET t == tx_done[i]
        IN  /\ t.kind = "return" => CountCalls(t.ops, "commit") = 1
            /\ t.kind = "raise" /\ t.value \in BodyExceptions =>
                   /\ CountCalls(t.ops, "rollback") = 1
                   /\ CountCalls(t.ops, "commit") = 0
                   /\ t.pending_after = {}

\* ---- GitHub auth CLI (SpecAuth)

\* C20: auth login and auth refresh write a token to the keyring only after
\* validate_token succeeded for that token; when the validation of the
\* supplied token fails, the keyring is as it was and the exit status is 1
C20_StoreOnlyValidated ==
    \A i \in 1..Len(au_done) :
        LET c == au_done[i]
        IN  /\ \A k \in 1..Len(c.log) :
                   c.log[k].op = "store" =>
                       \E j \in 1..(k - 1) :
                           /\ c.log[j].op = "validate"
                           /\ c.log[j].token = c.log[k].token
                           /\ c.log[j].ok
            /\ c.stored_after # c.stored_before =>
                   \E k \in 1..Len(c.log) :
                       c.log[k].op = "store" /\ c.stored_after = {c.log[k].token}
            /\ (\E k \in 1..Len(c.log) :
                    /\ c.log[k].op = "validate" /\ c.log[k].of = "supplied"
                    /\ ~c.log[k].ok) =>
                   c.stored_after = c.stored_before /\ c.status = 1

\* a refresh whose pasted token GitHub rejected, the old token still stored,
\* after a login that stored that old token in place of another
C20_Witness ==
    /\ Len(au_done) = 2
    /\ au_done[1].cmd = "login" /\ au_done[1].status = 0
    /\ au_done[1].stored_before # {}
    /\ au_done[1].stored_after # au_done[1].stored_before
    /\ au_done[2].cmd = "refresh" /\ au_done[2].status = 1
    /\ au_done[2].token # au_done[2].stored_before
    /\ au_done[2].log # <<>>
    /\ au_done[2].stored_after = au_done[1].stored_after

\* ---- repo put (SpecRepo)

\* the requests of a finished repo put whose lookup GitHub answered
LookupAnswered(c) ==
    /\ Len(c.requests) = 2
    /\ c.requests[1].status_code \in {200, 404}

AsksForDownload(k) ==
    LET n == PyInt(lp_log[k].choice)
    IN  /\ lp_log[k].ev = "prompt"
        /\ PyLower(lp_log[k].choice) # <<"q">>
        /\ n # {}
        /\ \A x \in n :
               /\ 1 <= x /\ x <= Len(lp_log[k].papers)
               /\ lp_log[k].papers[x].downloaded = "No"

\* C22: download_paper is called only for an input that is an integer in
\* 1..len(papers) whose row has downloaded = "No", and for that row; "q" in
\* any case ends the loop; every other input downloads nothing and is followed
\* by another prompt
C22_DownloadOnlyValidChoice ==
    \A k \in 1..Len(lp_log) :
        /\ lp_log[k].ev = "download" =>
               /\ k > 1 /\ AsksForDownload(k - 1)
               /\ \A x \in PyInt(lp_log[k - 1].choice) :
                      lp_log[k].folder = lp_log[k - 1].papers[x].folder
        /\ lp_log[k].ev = "prompt" /\ PyLower(lp_log[k].choice) = <<"q">> =>
               k = Len(lp_log) /\ lp_pc = "ended"
        /\ lp_log[k].ev = "prompt" /\ PyLower(lp_log[k].choice) # <<"q">>
              /\ ~AsksForDownload(k) =>
               /\ k < Len(lp_log)
               /\ lp_log[k + 1].ev \in {"invalid", "already downloaded"}
               /\ IF k + 1 = Len(lp_log) THEN lp_pc = "prompt"
                  ELSE lp_log[k + 2].ev = "prompt"

\* a command that turned away 0 and a row already downloaded, then
\* downloaded the second row on the input " 2"
C22_Witness ==
    /\ \E k \in 1..Len(lp_log) :
          lp_log[k].ev = "prompt" /\ lp_log[k].choice = <<"0">>
    /\ \E k \in 1..Len(lp_log) : lp_log[k].ev = "already downloaded"
    /\ \E k \in 2..Len(lp_log) :
          /\ lp_log[k].ev = "download"
          /\ lp_log[k - 1].choice = <<" ", "2">>

\* C23: once a selected paper was downloaded, the listing is scanned and
\* rendered again and the user is asked nothing more
C23_NoPromptAfterDownload ==
    \A k \in 1..Len(lp_log) :
        lp_log[k].ev = "download" /\ lp_log[k].ok =>
            /\ k < Len(lp_log) /\ lp_log[k + 1].ev = "render"
            /\ \A j \in (k + 1)..Len(lp_log) : lp_log[j].ev # "prompt"

\* ---- stream(): parsing (SpecSse)

\* the line is a well-formed chunk: a JSON object whose choices[0].delta is an
\* object
WellFormed(line) ==
    /\ line.prefix = "data: "
    /\ ~line.data.done /\ ~line.data.malformed
    /\ \E delta \in {JObj(Field("content", JStr(<<"H", "i">>))),
                     JObj(Field("content", JStr(<<"!">>))),
                     JObj(Field("content", JStr(<<>>))),
                     JObj(Field("role", JStr(<<"a">>)))} :
          line.data.json = Chunk(delta)

\* the non-empty content fragments of the well-formed lines among the first n
RECURSIVE Fragments(_, _)
Fragments(lines, n) ==
    IF n = 0 THEN <<>>
    ELSE LET line == lines[n]
             has == /\ WellFormed(line)
                    /\ "content" \in DOMAIN line.data.json.v.choices.v[1].v.delta.v
         IN  Fragments(lines, n - 1)
                 \o (IF has /\ Len(line.data.json.v.choices.v[1].v.delta.v.content.v) > 0
                     THEN <<line.data.json.v.choices.v[1].v.delta.v.content>>
                     ELSE <<>>)

\* the position of the first "data: [DONE]" line, 0 if there is none
FirstDone(lines) ==
    IF \E k \in 1..Len(lines) : lines[k] = SseLine("data: ", Done)
    THEN CHOOSE k \in 1..Len(lines) :
             /\ lines[k] = SseLine("data: ", Done)
             /\ \A j \in 1..(k - 1) : lines[j] # SseLine("data: ", Done)
    ELSE 0

\* C24: for an answer with a "data: [DONE]" line, stream() yields exactly the
\* non-empty delta contents of the well-formed data lines before it, in
\* order, nothing for [DONE] or after it, and passes over data lines that are
\* malformed JSON or of another shape without raising or ending
C24_StreamYieldsFragments ==
    FirstDone(sse_lines) > 0 /\ sse_pc # "reading" =>
        /\ sse_raised = {}
        /\ sse_pc = "done"
        /\ sse_pos = FirstDone(sse_lines)
        /\ sse_yielded = Fragments(sse_lines, FirstDone(sse_lines) - 1)

\* ---- client: retry loop (SpecClient)

\* the answer is an HTTP error status below 500
ClientError(answer) ==
    answer.kind = "http" /\ answer.status # 200 /\ answer.status < 500

\* C25: a POST of complete() answered with an HTTP error status below 500
\* ends the call at once with that error: it is the call's last POST, no
\* backoff wait follows it, and the cache is left as it was
C25_ClientErrorRaisedAtOnce ==
    \A i \in 1..Len(calls) :
        LET call == calls[i]
            n == Len(call.answers)
        IN  \A k \in 1..n :
                ClientError(call.answers[k]) =>
                    /\ k = n
                    /\ call.kind = "raise"
                    /\ call.error = call.answers[k]
                    /\ Len(call.sleeps) = n - 1
                    /\ call.rows_after = call.rows_before

\* a call on a client with a cache, at temperature 0, that was answered 404
\* on its second POST, after one wait
C25_Witness ==
    \E i \in 1..Len(calls) :
        /\ cl_has_cache /\ calls[i].temperature = 0
        /\ Len(calls[i].answers) = 2
        /\ ClientError(calls[i].answers[2])
        /\ calls[i].sleeps = <<1>>
        /\ calls[i].kind = "raise"

\* C26: complete() waits only between two attempts, 2^k seconds after the
\* k-th failed attempt (k from 0); a call that used up its max_retries
\* attempts has waited max_retries - 1 times, not after the last one
C26_BackoffOnlyBetweenAttempts ==
    \A i \in 1..Len(calls) :
        LET call == calls[i]
            n == Len(call.answers)
        IN  /\ \A k \in 1..Len(call.sleeps) : call.sleeps[k] = 2 ^ (k - 1)
            /\ ( /\ call.kind = "raise"
                 /\ call.error.kind = "exception"
                 /\ call.error.type = "RuntimeError"
                 /\ n >= 1 )
               => /\ n = cl_config.max_retries
                  /\ Len(call.sleeps) = cl_config.max_retries - 1

\* ---- Result type (SpecResult)

\* C27: Ok(v).map(f) = Ok(f(v)), Err(e).map(f) = Err(e),
\* Ok(v).and_then(f) = f(v), Err(e).and_then(f) = Err(e), and on an Err
\* neither method calls f
C27_MapAndThenLaws ==
    \A i \in 1..Len(rs_out) :
        LET call == rs_out[i]
        IN  /\ call.op = "map" /\ rs_r.ok =>
                   call.out.result = [ok |-> TRUE, value |-> rs_fn[rs_r.value]]
            /\ call.op = "and_then" /\ rs_r.ok =>
                   call.out.result = rs_chain[rs_r.value]
            /\ call.op \in {"map", "and_then"} /\ ~rs_r.ok =>
                   /\ call.out.result = rs_r
                   /\ call.out.fn_calls = <<>>

\* and_then on an Ok whose function answers with an Err
C27_Witness ==
    /\ rs_r.ok /\ ~rs_chain[rs_r.value].ok /\ rs_fn[rs_r.value] # rs_r.value
    /\ \E i \in 1..Len(rs_out) : rs_out[i].op = "and_then"

\* the values of a list of Ok results, in order
Unwrapped(results) == [k \in 1..Len(results) |-> results[k].value]

\* C28: collect_results(rs) is the first Err of rs if rs has one, else Ok of
\* the values of rs in order; collect_results([]) is Ok([])
C28_CollectFirstErr ==
    \A i \in 1..Len(rs_out) :
        rs_out[i].op = "collect" =>
            LET errs == {k \in 1..Len(rs_results) : ~rs_results[k].ok}
            IN  IF errs = {}
                THEN rs_out[i].out.result =
                         [ok |-> TRUE, value |-> Unwrapped(rs_results)]
                ELSE rs_out[i].out.result =
                         rs_results[CHOOSE k \in errs : \A j \in errs : k <= j]

\* a list with an Ok first and two different Errs after it, collected
C28_Witness ==
    /\ Len(rs_results) = 3
    /\ rs_results[1].ok /\ ~rs_results[2].ok /\ ~rs_results[3].ok
    /\ rs_results[2] # rs_results[3]
    /\ \E i \in 1..Len(rs_out) : rs_out[i].op = "collect"

\* ---- get_paginated (SpecPaginated)

\* the least n with n * page_size >= total
Ceil(total, page_size) ==
    CHOOSE n \in 0..total : n * page_size >= total /\ (n = 0 \/ (n - 1) * page_size < total)

\* C29: for page >= 1 and page_size >= 1 over `total` matching rows the
\* result has min(page_size, max(0, total - (page-1)*page_size)) items, that
\* total, total_pages = ceil(total/page_size), has_next = (page < total_pages)
\* and has_previous = (page > 1)
C29_PageArithmetic ==
    \A result \in pg_result :
        LET page == pg_args.page
            page_size == pg_args.page_size
            total == count(pg_table, pg_args.filters)
        IN  /\ Len(result.items) =
                   Min(page_size, Max(0, total - (page - 1) * page_size))
            /\ result.total = total
            /\ result.total_pages = Ceil(total, page_size)
            /\ has_next(result) = (page < Ceil(total, page_size))
            /\ has_previous(result) = (page > 1)

\* 25 matching rows, page_size 10, page 3: 5 items, total 25, 3 pages
C29_Witness ==
    /\ pg_args.page = 3 /\ pg_args.page_size = 10 /\ pg_args.filters = {"paper"}
    /\ pg_table["paper"] = 25 /\ pg_table["note"] > 0
    /\ \E result \in pg_result :
           /\ Len(result.items) = 5
           /\ result.total = 25
           /\ result.total_pages = 3
           /\ ~has_next(result) /\ has_previous(result)

\* ---- extraction service: the events of a successful run (SpecExtract)

\* the stages of the progress events published, in order
Stages == [k \in 1..Len(ProgressEvents) |-> ProgressEvents[k].stage]

\* C30: when extract_paper returns Ok it has published, in this order,
\* ExtractionStartedEvent, progress "parsing", progress "analyzing", then
\* either "chunking" and one "extracting" per chunk or a single "extracting",
\* then "finalizing", then "complete", and last exactly one
\* ExtractionCompletedEvent with success=true, pages_created = the number of
\* suggested pages and notes_created = 0
C30_SuccessSequence ==
    \A r \in ex_return :
        r.ok =>
            /\ ex_pc = "returned"
            /\ Len(published) = Len(ProgressEvents) + 2
            /\ published[1] = ExtractionStartedEvent(ex_input.paper_id)
            /\ \A k \in 1..Len(ProgressEvents) : published[k + 1] = ProgressEvents[k]
            /\ \/ Stages = <<"parsing", "analyzing", "extracting",
                             "finalizing", "complete">>
               \/ /\ ck_result # <<>>
                  /\ Stages = <<"parsing", "analyzing", "chunking">>
                                \o Rep("extracting", Len(ck_result))
                                \o <<"finalizing", "complete">>
            /\ published[Len(published)] =
                   ExtractionCompletedEvent(ex_input.paper_id, TRUE,
                                            Len(r.value.suggested_pages), 0)
            /\ Len(CompletedEvents) = 1

\* a run has returned Ok with four suggested pages
C30_Witness ==
    /\ ex_pc = "returned"
    /\ \E r \in ex_return : r.ok /\ Len(r.value.suggested_pages) = 4
    /\ Len(published) = 7

\* ---- extractors: exceptions (SpecExtractor)

\* C35: when complete() raises, or processing the response raises, extract()
\* does not raise: it returns success=false, empty data, confidence 0.0, an
\* empty raw_response and the message of the exception as its only error
C35_ExceptionBecomesResult ==
    \A i \in 1..Len(xt_done) :
        LET x == xt_done[i]
        IN  x.met.kind \in {"complete_raises", "process_raises"} =>
                /\ x.raised = {}
                /\ ~x.result.success
                /\ x.result.data = EmptyData
                /\ x.result.confidence = Fraction(0, 1)
                /\ x.result.raw_response = ""
                /\ x.result.errors = <<PyStr(x.met.error)>>

\* one extract() whose complete() raised and one whose processing raised
C35_Witness ==
    /\ \E i \in 1..Len(xt_done) :
           xt_done[i].met.kind = "complete_raises" /\ Len(xt_done[i].llm_calls) = 1
    /\ \E i \in 1..Len(xt_done) : xt_done[i].met.kind = "process_raises"

\* ---- extraction service: page suggestions (SpecExtract)

\* the place of a category in the order sections, concepts, algorithms
GroupRank(category) ==
    CASE category = "section" -> 1
      [] category = "concept" -> 2
      [] category = "algorithm" -> 3

\* C33: the suggested pages are the section entries, then the concept
\* entries, then the algorithm entries, and the k-th suggestion (from 0) has
\* position k
C33_PositionsSharedCounter ==
    \A r \in ex_return :
        r.ok =>
            LET pages == r.value.suggested_pages
                OfCategory(c) == SelectSeq(pages, LAMBDA p : p.category = c)
            IN  /\ \A k \in 1..Len(pages) : pages[k].position = k - 1
                /\ \A i, j \in 1..Len(pages) :
                       i < j => GroupRank(pages[i].category) <= GroupRank(pages[j].category)
                /\ Len(OfCategory("concept")) = Len(r.value.main_concepts)
                /\ Len(OfCategory("algorithm")) = Len(r.value.algorithms)
                /\ [k \in 1..Len(OfCategory("concept")) |-> OfCategory("concept")[k].title]
                       = [k \in 1..Len(r.value.main_concepts) |-> r.value.main_concepts[k].name]

\* pages of all three groups were suggested: two sections, a concept and an
\* algorithm
C33_Witness ==
    \E r \in ex_return :
        /\ r.ok
        /\ [k \in 1..Len(r.value.suggested_pages) |-> r.value.suggested_pages[k].category]
               = <<"section", "section", "concept", "algorithm">>

\* ---- extraction service: start and completion events (SpecExtract)

StartedEvents == SelectSeq(published, LAMBDA e : e.type = "ExtractionStartedEvent")

\* C37: an extract_paper call that has returned has published exactly one
\* ExtractionStartedEvent and exactly one ExtractionCompletedEvent, and the
\* completion event says success exactly when the call returned Ok
C37_OneStartOneCompletion ==
    ex_pc = "returned" =>
        /\ Len(StartedEvents) = 1
        /\ Len(CompletedEvents) = 1
        /\ \A r \in ex_return : CompletedEvents[1].success = r.ok

\* ---- extraction service: the chunked path (SpecExtract)

C36_FailedScopeLeavesNothing ==
    \A i \in 1..Len(tx_done) :
        LET t == tx_done[i]
        IN  (t.kind = "raise" /\ IsException(t.value)) =>
                t.rows_after = t.rows_before

\* ---- event bus: handlers that change the subscriptions (SpecBusReentrant)

\* how often handler h is in the list
Occurrences(list, h) == Cardinality({k \in 1..Len(list) : list[k] = h})

\* a handler called during the last publish subscribed or unsubscribed h
\* for the key
Touched(key, h) ==
    \E k \in 1..Len(invoked) :
        /\ invoked[k].key = key
        /\ invoked[k].effect.op # "none"
        /\ invoked[k].effect.handler = h

\* C38: when publish() has returned, every handler that was subscribed
\* (once) to the event's type when publish() was called, and that no handler
\* subscribed or unsubscribed meanwhile, has been called exactly once for
\* the event, whatever the handlers did to other subscriptions
C38_DeliversToSubscribersAtCall ==
    (pb_pc = "idle" /\ pb_event # NoEvent) =>
        \A h \in Handlers :
            (Occurrences(pb_at_call[pb_event], h) = 1 /\ ~Touched(pb_event, h)) =>
                Cardinality({k \in 1..Len(invoked) :
                    invoked[k].handler = h /\ invoked[k].key = pb_event}) = 1

\* ---- extractor and client together (SpecExtractorClient)

\* C39: every completion issued through extract() has temperature 0.1, so it
\* makes no call to the response cache and leaves the cache rows as they
\* were, with or without a cache and whatever the configured temperature;
\* and an extraction repeated with the same arguments issues the same
\* request again, by POSTs of its own
C39_ExtractBypassesCache ==
    /\ cl_pc \notin {"cache_get", "cache_set"}
    /\ cache_log = <<>>
    /\ llm_cache = <<>>
    /\ \A i \in 1..Len(calls) :
          /\ calls[i].temperature = 1
          /\ calls[i].cache_calls = 0
          /\ calls[i].rows_after = calls[i].rows_before
    /\ \A i, j \in 1..Len(xt_done) :
          LET a == xt_done[i]
              b == xt_done[j]
          IN  (i < j /\ a.llm_calls # <<>> /\ a.template = b.template
                     /\ a.content = b.content /\ a.context = b.context) =>
                  /\ b.llm_calls # <<>>
                  /\ b.llm_calls[1].messages = a.llm_calls[1].messages
                  /\ b.llm_calls[1].posts >= 1
                  /\ (b.result.success => ~calls[2].response.cached)

\* with a cache and the configured temperature 0.0, the same extraction run
\* twice, both times answered by the backend
C39_Witness ==
    /\ cl_has_cache /\ cl_config.temperature = 0
    /\ Len(xt_done) = 2
    /\ xt_done[1].template = xt_done[2].template
    /\ xt_done[1].content = xt_done[2].content
    /\ xt_done[1].context = xt_done[2].context
    /\ xt_done[1].result.success /\ xt_done[2].result.success
    /\ Len(posts) = 2


\* ---- the cache's notions of an expired row (SpecCache)

\* C40: whenever get(), clear_expired() and get_stats() are called at the
\* same time on the same rows, a row is a miss for get() because of its
\* expiry if and only if clear_expired() deletes it, and get_stats() counts
\* exactly those rows as expired_entries; a row whose expires_at equals the
\* time of the calls is included.
C40_ExpiredNotionsAgree ==
    \A i, j \in 1..Len(cache_log) :
        LET g == cache_log[i]
            c == cache_log[j]
        IN  ( /\ g.op = "get"
              /\ c.op \in {"clear_expired", "get_stats"}
              /\ g.time = c.time
              /\ g.before = c.before
              /\ g.key \in DOMAIN g.before )
            => IF c.op = "clear_expired"
               THEN (g.result.kind = "none") <=> (g.key \notin DOMAIN c.after)
               ELSE /\ c.result.stats.expired_entries
                          = Cardinality({k \in DOMAIN c.before :
                                            ~LiveAt(c.before, k, c.time)})
                    /\ DOMAIN c.before = {g.key} =>
                          ( (g.result.kind = "none")
                              <=> (c.result.stats.expired_entries = 1) )

\* ---- pages and notes from an extraction (SpecCreatePages)

\* the page ids of the pages the page service created, in call order
CreatedIds(log) ==
    LET made == SelectSeq(log, LAMBDA e : e.op = "page" /\ e.outcome = "page")
    IN  [n \in 1..Len(made) |-> made[n].page_id]

\* the service calls made for pages, in call order
PageCalls(log) == SelectSeq(log, LAMBDA e : e.op = "page")

\* the claim about one call: its arguments and the service calls it made
PagesThenNotes(suggested_pages, auto_create_notes, log) ==
    /\ Len(PageCalls(log)) <= Len(suggested_pages)
    /\ \A n \in 1..Len(PageCalls(log)) :
          PageCalls(log)[n].data =
              [paper_id |-> "paper",
               title |-> suggested_pages[n].title,
               category |-> suggested_pages[n].category,
               position |-> suggested_pages[n].position]
    /\ \A n \in 1..Len(log) :
          log[n].op = "note" =>
              /\ auto_create_notes
              /\ n > 1
              /\ log[n - 1].op = "page"
              /\ log[n - 1].outcome = "page"
              /\ log[n].data.page_id = log[n - 1].page_id
              /\ log[n].data.note_type = "text"
              /\ log[n].data.position = 0
              /\ log[n].data.content # ""
              /\ log[n].data.content =
                    suggested_pages[Len(PageCalls(SubSeq(log, 1, n)))].suggested_content
    /\ \A n, m \in 1..Len(log) :
          (log[n].op = "note" /\ log[m].op = "note" /\ n # m)
              => log[n].data.page_id # log[m].data.page_id

\* C34: create_pages_from_extraction asks for the pages in suggestion order,
\* asks for a note only straight after that suggestion's page was created,
\* at most once per page, as a text note at position 0 with the suggested
\* content, and only with auto_create_notes set and the content non-empty;
\* a call in which no service raised returns Ok with the ids of the pages
\* created, in suggestion order.
C34_PagesThenNotes ==
    /\ PagesThenNotes(cp_call.suggested_pages, cp_call.auto_create_notes,
                      cp_call.log)
    /\ \A k \in 1..Len(cp_done) :
          LET d == cp_done[k]
          IN  /\ PagesThenNotes(d.suggested_pages, d.auto_create_notes, d.log)
              /\ (\A n \in 1..Len(d.log) : d.log[n].outcome # "raises")
                    => /\ d.result = Ok(CreatedIds(d.log))
                       /\ Len(PageCalls(d.log)) = Len(d.suggested_pages)

\* C34's case: a call with two suggestions, the first with content and the
\* second without, created both pages and the one note, and returned
C34_Witness ==
    \E k \in 1..Len(cp_done) :
        LET d == cp_done[k]
        IN  /\ d.auto_create_notes
            /\ Len(d.suggested_pages) = 2
            /\ d.suggested_pages[1].suggested_content # ""
            /\ d.suggested_pages[2].suggested_content = ""
            /\ Len(d.log) = 3
            /\ d.log[2].op = "note"
            /\ d.result = Ok(<<1, 2>>)

====
